---- MODULE Spec2Model ----
(***************************************************************************)
(* A model of zirkelc/chunk-visualizer: the hierarchical sectionizer       *)
(* (createHierarchicalAST / flattenHierarchicalAST, src/src/app/page.tsx), *)
(* the chunkdown adapter (ChunkdownSplitter.splitText) and the             *)
(* useTextSplitter hook.                                                   *)
(*                                                                         *)
(* JavaScript objects that the code allocates carry an address (ref), so   *)
(* that aliasing and writes can be stated; an mdast node is a record       *)
(* [type, depth, position, id], id being the identity of the node object.  *)
(***************************************************************************)
EXTENDS Integers, Sequences, FiniteSets, TLC

VARIABLES
    root,       \* root.children of the flat mdast Root handed to createHierarchicalAST
    ast,        \* the HierarchicalRoot the latest createHierarchicalAST call returned
    prev,       \* the HierarchicalRoot the call before that returned
    flat,       \* the Root the latest flattenHierarchicalAST call returned
    heap,       \* [next, writes]: the next unused address, the addresses the latest call stored to
    calls,      \* the number of createHierarchicalAST calls made
    text,       \* the text to split: a sequence of tokens (blocks and whitespace)
    config,     \* the TextSplitterConfig: a record of the keys that are present
    ret,        \* the outcome of the latest direct ChunkdownSplitter.splitText call
    earlier,    \* the outcome of a call made before the latest, kept to compare
    splitterId, \* useTextSplitter's splitterId
    chunks,     \* useTextSplitter's chunks state
    isLoading,  \* useTextSplitter's isLoading state
    error,      \* useTextSplitter's error state
    pending,    \* the runs of useTextSplitter's effect suspended at their await
    effectDue,  \* the effect of useTextSplitter is scheduled (mount, changed dependency)
    splitters,  \* the Map of a SplitterRegistry: its splitters in insertion order
    page,       \* the React state of HomeContent: a record of its useState values
    browser,    \* the URL's searchParams, a router.replace not yet committed, the system theme
    timer,      \* the 500 ms timer of the debounce effect is running
    edits,      \* the changes made through the page's controls, where a run counts them
    loads       \* the URLs opened from outside the page, where a run counts them

astVars == <<root, ast, prev, flat, heap, calls>>

splitVars == <<text, config, ret, earlier>>

hookVars == <<splitterId, chunks, isLoading, error, pending, effectDue>>

registryVars == <<splitters>>

pageVars == <<page, browser, timer, edits, loads>>

vars == <<root, ast, prev, flat, heap, calls, text, config, ret, earlier,
          splitterId, chunks, isLoading, error, pending, effectDue, splitters,
          page, browser, timer, edits, loads>>

(***************************************************************************)
(* Bounds of the model.                                                    *)
(***************************************************************************)
MaxNodes == 3       \* the longest flat block list
MaxDepth == 3       \* the deepest heading (mdast allows 1..6)
MaxCalls == 2       \* createHierarchicalAST calls on one root
MaxTokens == 3      \* the longest text, in tokens
MaxLeafSize == 3    \* the longest paragraph, in characters
MaxChunkSize == 2   \* the largest chunkSize a caller configures
MaxBlank == 2       \* the longest whitespace-only text given to the hook
MaxPending == 2     \* the most runs of the hook suspended at once
MaxEdits == 2       \* the most changes made through the page's controls
MaxLoads == 2       \* the most URLs opened from outside the page

(***************************************************************************)
(* mdast values.                                                           *)
(***************************************************************************)
\* JavaScript's undefined, for an absent position or an absent result.
Undefined == [undefined |-> TRUE]

\* JavaScript's null, for useTextSplitter's error state.
Null == [null |-> TRUE]

\* The position the parser attaches to the i-th top-level block: blocks do
\* not overlap and are in document order.
PositionOf(i) == [start |-> 2 * i - 1, end |-> 2 * i]

\* What the parser can have produced for one block: its type, its depth
\* (headings only) and whether it carries a position.
NodeKinds ==
    { [type |-> "heading", depth |-> d, positioned |-> p] :
        d \in 1..MaxDepth, p \in BOOLEAN }
    \cup { [type |-> t, depth |-> 0, positioned |-> p] :
        t \in {"paragraph", "thematicBreak"}, p \in BOOLEAN }

\* The block node object of kind k at index i of root.children.
MkNode(k, i) ==
    [type     |-> k.type,
     depth    |-> k.depth,
     position |-> IF k.positioned THEN PositionOf(i) ELSE Undefined,
     id       |-> i]

(***************************************************************************)
(* The heap: addresses of the input objects, allocation, stores.           *)
(***************************************************************************)
\* The address of the input array root.children; the node at index i has
\* address i.
RootChildrenRef == 0

InputRefs(nodes) == 0..Len(nodes)

\* A bug for alloc: the array or object is hoisted out of the call and
\* shared, here with the input array.
allocShared(h) == RootChildrenRef

\* An object or array literal ({...}, []) or Array.prototype.filter: a
\* fresh object, at the next unused address.
alloc(h) == h.next

New(h) == [ref |-> alloc(h), h |-> [h EXCEPT !.next = @ + 1]]

\* A store to the object at ref (push, property assignment).
Store(h, ref) == [h EXCEPT !.writes = @ \cup {ref}]

(***************************************************************************)
(* createHierarchicalAST.                                                  *)
(***************************************************************************)
isSection(node) == node.type = "section"

\* A bug for StopsCollection: < for <=, so that a heading of the same depth
\* is swallowed.
StopsCollectionStrict(nextNode, node) ==
    \/ nextNode.type = "heading" /\ nextNode.depth < node.depth
    \/ nextNode.type = "thematicBreak"

\* A bug for StopsCollection: the thematic break does not stop collection.
StopsCollectionNoBreak(nextNode, node) ==
    nextNode.type = "heading" /\ nextNode.depth <= node.depth

\* A bug for StopsCollection: the thematic break ends only the collection
\* of a top-level heading, so that a deeper Section absorbs it.
StopsCollectionBreakAtTop(nextNode, node) ==
    \/ nextNode.type = "heading" /\ nextNode.depth <= node.depth
    \/ nextNode.type = "thematicBreak" /\ node.depth = 1

\* A bug for StopsCollection: the depth comparison is inverted, so that a
\* deeper heading ends the collection and a shallower one is swallowed.
StopsCollectionDeeper(nextNode, node) ==
    \/ nextNode.type = "heading" /\ nextNode.depth >= node.depth
    \/ nextNode.type = "thematicBreak"

\* The two breaks of the inner while loop.
StopsCollection(nextNode, node) ==
    \/ nextNode.type = "heading" /\ nextNode.depth <= node.depth
    \/ nextNode.type = "thematicBreak"

\* The inner while loop: from index i on, push every node onto
\* section.children (here: children) until the list ends or a node stops
\* the collection.  Returns the index reached and the children pushed.
RECURSIVE collect(_, _, _, _)
collect(nodes, i, node, children) ==
    IF i > Len(nodes) THEN [i |-> i, children |-> children]
    ELSE IF StopsCollection(nodes[i], node) THEN [i |-> i, children |-> children]
    ELSE collect(nodes, i + 1, node, Append(children, nodes[i]))

\* What a read of a property of undefined raises.
TypeError == [error |-> "TypeError"]

\* A bug for EndPos: the end of the first child instead of the last.
EndPosFirst(children, node) ==
    IF children = <<>> THEN node.position.end
    ELSE IF children[1].position = Undefined THEN node.position.end
    ELSE children[1].position.end

\* lastChild?.position?.end || node.position.end
EndPos(children, node) ==
    IF children = <<>> THEN node.position.end
    ELSE IF children[Len(children)].position = Undefined THEN node.position.end
    ELSE children[Len(children)].position.end

\* A bug for SectionPosition: the position is built without the
\* if (node.position) guard, so that node.position.start raises.
SectionPositionUnguarded(children, node) ==
    IF node.position = Undefined THEN TypeError
    ELSE [start |-> node.position.start, end |-> EndPos(children, node)]

\* if (node.position) section.position = {start: node.position.start, end: endPos}
SectionPosition(children, node) ==
    IF node.position = Undefined THEN Undefined
    ELSE [start |-> node.position.start, end |-> EndPos(children, node)]

\* A bug for SectionDepth: every Section gets depth 1.
SectionDepthOne(node) == 1

\* depth: node.depth
SectionDepth(node) == node.depth

RECURSIVE transform(_, _)
RECURSIVE transformFrom(_, _, _, _, _)

\* The Section built for the heading at nodes[i], the index after its
\* run, and the heap after building it.
BuildSection(nodes, i, h) ==
    LET node     == nodes[i]
        section  == New(h)                          \* const section = {...}
        array    == New(section.h)                  \*   children: []
        run      == collect(nodes, i + 1, node, <<>>)
        pushed   == IF run.children = <<>> THEN array.h
                    ELSE Store(array.h, array.ref)  \* section.children.push
        filtered == New(pushed)                     \* section.children.filter
        contentNodes == SelectSeq(run.children, LAMBDA child : ~isSection(child))
        sub      == transform(contentNodes, filtered.h)
        assigned == Store(sub.h, section.ref)       \* section.children = ...
        position == SectionPosition(sub.result, node)
        placed   == IF node.position = Undefined THEN assigned
                    ELSE Store(New(assigned).h, section.ref) \* section.position = {...}
    IN  [i |-> run.i,
         h |-> placed,
         section |-> [type        |-> "section",
                      depth       |-> SectionDepth(node),
                      heading     |-> node,
                      children    |-> sub.result,
                      position    |-> position,
                      ref         |-> section.ref,
                      childrenRef |-> sub.ref]]

\* The outer while loop of transform, from index i on; result is the array
\* at resultRef.
transformFrom(nodes, i, result, resultRef, h) ==
    IF i > Len(nodes) THEN [result |-> result, ref |-> resultRef, h |-> h]
    ELSE IF nodes[i].type = "heading"
    THEN LET b == BuildSection(nodes, i, h)
         IN  transformFrom(nodes, b.i, Append(result, b.section), resultRef,
                           Store(b.h, resultRef))
    ELSE \* a thematic break or regular content: result.push(node); i++
         transformFrom(nodes, i + 1, Append(result, nodes[i]), resultRef,
                       Store(h, resultRef))

\* const result = []; let i = 0; while (i < nodes.length) ...; return result
transform(nodes, h) ==
    LET result == New(h)
    IN  transformFrom(nodes, 1, <<>>, result.ref, result.h)

\* createHierarchicalAST(root): the HierarchicalRoot and the heap after the call.
createHierarchicalAST(nodes, h) ==
    LET sections == transform(nodes, h)
        object   == New(sections.h)
    IN  [h   |-> object.h,
         ast |-> [type        |-> "root",
                  children    |-> sections.result,
                  ref         |-> object.ref,
                  childrenRef |-> sections.ref]]

(***************************************************************************)
(* flattenHierarchicalAST.                                                 *)
(***************************************************************************)
\* A bug for flatten: the heading is pushed after the Section's children.
RECURSIVE flattenHeadingLast(_)
flattenHeadingLast(nodes) ==
    IF nodes = <<>> THEN <<>>
    ELSE LET node == Head(nodes)
         IN  IF isSection(node)
             THEN flattenHeadingLast(node.children)
                  \o (IF node.heading = Undefined THEN <<>> ELSE <<node.heading>>)
                  \o flattenHeadingLast(Tail(nodes))
             ELSE <<node>> \o flattenHeadingLast(Tail(nodes))

\* for (const node of nodes): a Section contributes its heading, then its
\* flattened children; any other node contributes itself.
RECURSIVE flatten(_)
flatten(nodes) ==
    IF nodes = <<>> THEN <<>>
    ELSE LET node == Head(nodes)
         IN  IF isSection(node)
             THEN (IF node.heading = Undefined THEN <<>> ELSE <<node.heading>>)
                  \o flatten(node.children) \o flatten(Tail(nodes))
             ELSE <<node>> \o flatten(Tail(nodes))

flattenHierarchicalAST(tree) == [type |-> "root", children |-> flatten(tree.children)]

(***************************************************************************)
(* SplitterRegistry.  The Map of splitters is the sequence of its values   *)
(* in insertion order; a splitter is a record of its id and of its         *)
(* disabled flag when it has one.                                          *)
(***************************************************************************)
\* The index of the entry of id in the Map, 0 when there is none.
IndexOf(m, id) ==
    IF \E j \in 1..Len(m) : m[j].id = id
    THEN CHOOSE j \in 1..Len(m) : m[j].id = id
    ELSE 0

\* A bug for register: the splitters are pushed to an array.
registerPushed(m, splitter) == Append(m, splitter)

\* this.splitters.set(splitter.id, splitter): a new key goes last, a key
\* already there keeps its place and gets the new value.
register(m, splitter) ==
    IF IndexOf(m, splitter.id) = 0
    THEN Append(m, splitter)
    ELSE [m EXCEPT ![IndexOf(m, splitter.id)] = splitter]

\* this.splitters.get(id)
get(m, id) == IF IndexOf(m, id) = 0 THEN Undefined ELSE m[IndexOf(m, id)]

\* Array.from(this.splitters.values())
getAll(m) == m

\* !s.disabled
NotDisabled(s) == ~("disabled" \in DOMAIN s /\ s.disabled)

\* A bug for getEnabled: the filter keeps the disabled splitters.
getEnabledInverted(m) == SelectSeq(getAll(m), LAMBDA s : ~NotDisabled(s))

\* this.getAll().filter((s) => !s.disabled)
getEnabled(m) == SelectSeq(getAll(m), NotDisabled)

\* this.splitters.has(id)
has(m, id) == IndexOf(m, id) # 0

\* new ChunkdownSplitter(), new LangchainSplitter(), new LlamaIndexSplitter()
\* and new MastraSplitter(), the last with disabled = true.
ChunkdownSplitter == [id |-> "chunkdown"]

LangchainSplitter == [id |-> "langchain"]

LlamaIndexSplitter == [id |-> "llamaindex"]

MastraSplitter == [id |-> "mastra", disabled |-> TRUE]

\* splitterRegistry, the global registry as the module initialises it.
GlobalSplitters ==
    register(register(register(register(<<>>, ChunkdownSplitter),
                               LangchainSplitter),
                      LlamaIndexSplitter),
             MastraSplitter)

(***************************************************************************)
(* The page (HomeContent): its state and the URL that carries it.          *)
(*                                                                         *)
(* A string is a sequence of lexemes: a character of a number or of the    *)
(* text, a comma, or a whole word such as "row" or "library".  A set of    *)
(* URL parameters is a function from the names present to their values;    *)
(* serialising it into the URL and reading it back from searchParams is    *)
(* the browser's part and keeps it as it is.                               *)
(***************************************************************************)
Word(w) == <<w>>

Digits == <<"0", "1", "2", "3", "4", "5", "6", "7", "8", "9">>

IsDigit(c) == \E d \in 1..10 : Digits[d] = c

DigitValue(c) == (CHOOSE d \in 1..10 : Digits[d] = c) - 1

\* JavaScript's NaN and a number, as parseInt and parseFloat return them.
NaN == [nan |-> TRUE]

Num(n) == [nan |-> FALSE, value |-> n]

\* Number.prototype.toString of a non-negative integer.
RECURSIVE NatToString(_)
NatToString(n) ==
    IF n < 10 THEN <<Digits[n + 1]>>
    ELSE NatToString(n \div 10) \o <<Digits[(n % 10) + 1]>>

\* chunkSize.toString()
IntToString(n) == IF n < 0 THEN <<"-">> \o NatToString(0 - n) ELSE NatToString(n)

\* maxOverflowRatio.toString(): the ratio is kept in tenths, 15 for 1.5.
RatioToString(r) ==
    IF r % 10 = 0 THEN NatToString(r \div 10)
    ELSE NatToString(r \div 10) \o <<".">> \o NatToString(r % 10)

\* The value of the digits of s from index i on and the index after them.
RECURSIVE ReadDigits(_, _, _)
ReadDigits(s, i, acc) ==
    IF i <= Len(s) /\ IsDigit(s[i])
    THEN ReadDigits(s, i + 1, 10 * acc + DigitValue(s[i]))
    ELSE [value |-> acc, next |-> i]

\* The index after an optional sign at the head of s, and the sign.
SignOf(s) == IF s # <<>> /\ s[1] = "-" THEN 0 - 1 ELSE 1

AfterSign(s) == IF s # <<>> /\ s[1] \in {"-", "+"} THEN 2 ELSE 1

\* parseInt(s, 10): the leading integer of s, whatever follows it.
parseInt(s) ==
    LET i == AfterSign(s)
        d == ReadDigits(s, i, 0)
    IN  IF d.next = i THEN NaN ELSE Num(SignOf(s) * d.value)

\* parseFloat(s), in tenths: the leading decimal number of s.  The numbers
\* of the model have at most one digit after the point.
parseFloat(s) ==
    LET i == AfterSign(s)
        d == ReadDigits(s, i, 0)
        pointed == d.next < Len(s) /\ s[d.next] = "." /\ IsDigit(s[d.next + 1])
        tenths == IF pointed THEN DigitValue(s[d.next + 1]) ELSE 0
    IN  IF d.next = i /\ ~pointed THEN NaN
        ELSE Num(SignOf(s) * (10 * d.value + tenths))

\* The characters of a text: ASCII ones, one outside ASCII, and a lone
\* surrogate, which is no well-formed UTF-16.
AsciiChars == {"#", "a"}

LoneSurrogate == "uD800"

\* unescape(encodeURIComponent(c)): the UTF-8 bytes of a character.
Utf8(c) == IF c = "e-acute" THEN <<"C3", "A9">> ELSE <<c>>

RECURSIVE Utf8All(_)
Utf8All(t) == IF t = <<>> THEN <<>> ELSE Utf8(Head(t)) \o Utf8All(Tail(t))

\* What a call that can throw gives: its value, or the error thrown.
Returns(v) == [ok |-> TRUE, value |-> v]

Throws(e) == [ok |-> FALSE, error |-> e]

\* decodeURIComponent(escape(bytes)): the characters of UTF-8 bytes, or
\* URIError when the bytes are no UTF-8.
RECURSIVE Utf8Decode(_)
Utf8Decode(b) ==
    IF b = <<>> THEN Returns(<<>>)
    ELSE IF Head(b) \in AsciiChars
    THEN LET rest == Utf8Decode(Tail(b))
         IN  IF rest.ok THEN Returns(<<Head(b)>> \o rest.value) ELSE rest
    ELSE IF Len(b) >= 2 /\ b[1] = "C3" /\ b[2] = "A9"
    THEN LET rest == Utf8Decode(Tail(Tail(b)))
         IN  IF rest.ok THEN Returns(<<"e-acute">> \o rest.value) ELSE rest
    ELSE Throws("URIError")

\* btoa and atob: a base64 string is written as the mark "base64" followed
\* by the bytes it encodes; the empty string encodes no bytes.
btoa(bytes) == IF bytes = <<>> THEN <<>> ELSE <<"base64">> \o bytes

atob(s) ==
    IF s = <<>> THEN Returns(<<>>)
    ELSE IF s[1] = "base64" /\ \A j \in 2..Len(s) : s[j] # "base64"
    THEN Returns(Tail(s))
    ELSE Throws("InvalidCharacterError")

\* encodeText: btoa(unescape(encodeURIComponent(text))), '' when
\* encodeURIComponent throws.
encodeText(t) ==
    IF \E j \in 1..Len(t) : t[j] = LoneSurrogate THEN <<>>
    ELSE btoa(Utf8All(t))

\* decodeText: decodeURIComponent(escape(atob(encoded))), '' when it throws.
decodeText(encoded) ==
    LET bytes == atob(encoded)
    IN  IF ~bytes.ok THEN <<>>
        ELSE IF ~Utf8Decode(bytes.value).ok THEN <<>>
        ELSE Utf8Decode(bytes.value).value

\* const defaultText: a heading and a paragraph, all ASCII.
defaultText == <<"#", "a">>

SectionIds == {"library", "input", "ast", "chunks"}

DefaultOrder == <<"library", "input", "ast", "chunks">>

\* The useState initial values of HomeContent.
DefaultState ==
    [text                |-> defaultText,
     library             |-> "chunkdown",
     chunkdownAlgorithm  |-> "markdown",
     langchainAlgorithm  |-> "markdown",
     mastraAlgorithm     |-> "recursive",
     chunkSize           |-> 200,
     astCollapsed        |-> FALSE,
     maxOverflowRatio    |-> 15,
     isInitialized       |-> FALSE,
     layoutMode          |-> "row",
     theme               |-> "light",
     libraryCollapsed    |-> FALSE,
     inputCollapsed      |-> FALSE,
     astSectionCollapsed |-> FALSE,
     chunksCollapsed     |-> FALSE,
     sectionOrder        |-> DefaultOrder,
     toast               |-> ""]

\* libraryConfig[library].algorithms
LibraryAlgorithms(library) ==
    CASE library = "chunkdown" -> <<"markdown">>
      [] library = "langchain" -> <<"markdown", "character", "sentence">>
      [] library = "mastra"    -> <<"recursive", "character", "markdown">>

\* params.get(name) is not null.
Has(params, name) == name \in DOMAIN params

\* if (param): the parameter is present and not the empty string.
Truthy(params, name) == Has(params, name) /\ params[name] # <<>>

\* params.get(name) === 'word'
Is(params, name, w) == Has(params, name) /\ params[name] = Word(w)

\* orderParam.split(','): the entries between the commas, from index i on,
\* with the entry being read in entry.
RECURSIVE splitFrom(_, _, _)
splitFrom(s, i, entry) ==
    IF i > Len(s) THEN <<entry>>
    ELSE IF s[i] = "," THEN <<entry>> \o splitFrom(s, i + 1, <<>>)
    ELSE splitFrom(s, i + 1, Append(entry, s[i]))

split(s) == splitFrom(s, 1, <<>>)

\* sectionOrder.join(',')
RECURSIVE join(_)
join(order) ==
    IF order = <<>> THEN <<>>
    ELSE IF Len(order) = 1 THEN Word(order[1])
    ELSE Word(order[1]) \o <<",">> \o join(Tail(order))

\* order.includes('id')
Includes(order, id) == \E j \in 1..Len(order) : order[j] = Word(id)

\* order.length === 4 && order.includes(...) for each of the four ids
ValidOrder(order) ==
    /\ Len(order) = 4
    /\ \A id \in SectionIds : Includes(order, id)

\* A bug for ValidChunkSize: no upper limit.
ValidChunkSizeUnlimited(parsedSize) ==
    ~parsedSize.nan /\ parsedSize.value >= 1

\* !isNaN(parsedSize) && parsedSize >= 1 && parsedSize <= 2000
ValidChunkSize(parsedSize) ==
    ~parsedSize.nan /\ parsedSize.value >= 1 /\ parsedSize.value <= 2000

\* !isNaN(ratio) && ratio >= 1.0 && ratio <= 3.0
ValidRatio(ratio) == ~ratio.nan /\ ratio.value >= 10 /\ ratio.value <= 30

\* The strings of an order as the section ids they are taken for.
AsSectionIds(order) ==
    [j \in 1..Len(order) |-> IF order[j] = <<>> THEN "" ELSE order[j][1]]

\* The load effect: the state after its setters, from the state p, the
\* parameters of searchParams and the system's colour scheme.
LoadFromURL(p, params, prefersDark) ==
    [text |->
        IF Truthy(params, "text") /\ decodeText(params["text"]) # <<>>
        THEN decodeText(params["text"]) ELSE p.text,
     library |->
        IF \E l \in {"chunkdown", "langchain", "mastra"} : Is(params, "library", l)
        THEN params["library"][1] ELSE p.library,
     chunkdownAlgorithm |->
        IF Is(params, "chunkdownAlgorithm", "markdown") THEN "markdown"
        ELSE p.chunkdownAlgorithm,
     langchainAlgorithm |->
        IF \E a \in {"markdown", "character", "sentence"} :
              Is(params, "langchainAlgorithm", a)
        THEN params["langchainAlgorithm"][1] ELSE p.langchainAlgorithm,
     mastraAlgorithm |->
        IF \E a \in {"recursive", "character", "markdown"} :
              Is(params, "mastraAlgorithm", a)
        THEN params["mastraAlgorithm"][1] ELSE p.mastraAlgorithm,
     chunkSize |->
        IF Truthy(params, "chunkSize") /\ ValidChunkSize(parseInt(params["chunkSize"]))
        THEN parseInt(params["chunkSize"]).value ELSE p.chunkSize,
     astCollapsed        |-> Is(params, "astCollapsed", "true"),
     libraryCollapsed    |-> Is(params, "libraryCollapsed", "true"),
     inputCollapsed      |-> Is(params, "inputCollapsed", "true"),
     astSectionCollapsed |-> Is(params, "astSectionCollapsed", "true"),
     chunksCollapsed     |-> Is(params, "chunksCollapsed", "true"),
     sectionOrder |->
        IF Truthy(params, "sectionOrder") /\ ValidOrder(split(params["sectionOrder"]))
        THEN AsSectionIds(split(params["sectionOrder"])) ELSE p.sectionOrder,
     maxOverflowRatio |->
        IF Truthy(params, "maxOverflow") /\ ValidRatio(parseFloat(params["maxOverflow"]))
        THEN parseFloat(params["maxOverflow"]).value ELSE p.maxOverflowRatio,
     layoutMode |->
        IF Is(params, "layout", "column") \/ Is(params, "layout", "row")
        THEN params["layout"][1] ELSE p.layoutMode,
     theme |->
        IF Is(params, "theme", "light") \/ Is(params, "theme", "dark")
        THEN params["theme"][1]
        ELSE IF prefersDark THEN "dark" ELSE "light",
     isInitialized |-> TRUE,
     toast |-> p.toast]

\* Chrome supports URLs up to ~32,767 characters
MaxUrlLength == 32767

\* window.location.origin.length + window.location.pathname.length
LocationLength == 22

TooLong(encodedText) == LocationLength + Len(encodedText) > MaxUrlLength

ParamNames ==
    {"text", "library", "chunkdownAlgorithm", "langchainAlgorithm",
     "mastraAlgorithm", "chunkSize", "astCollapsed", "libraryCollapsed",
     "inputCollapsed", "astSectionCollapsed", "chunksCollapsed",
     "sectionOrder", "maxOverflow", "layout", "theme"}

\* The URLSearchParams updateURL builds from the state p: the names it
\* sets, each with the value it sets.
URLParams(p, prefersDark) ==
    LET systemTheme == IF prefersDark THEN "dark" ELSE "light"
        set == [text                |-> p.text # <<>> /\ ~TooLong(encodeText(p.text)),
                library             |-> p.library # "chunkdown",
                chunkdownAlgorithm  |-> p.library = "chunkdown"
                                        /\ p.chunkdownAlgorithm # "markdown",
                langchainAlgorithm  |-> p.library = "langchain"
                                        /\ p.langchainAlgorithm # "markdown",
                mastraAlgorithm     |-> p.library = "mastra"
                                        /\ p.mastraAlgorithm # "recursive",
                chunkSize           |-> p.chunkSize # 200,
                astCollapsed        |-> p.astCollapsed,
                libraryCollapsed    |-> p.libraryCollapsed,
                inputCollapsed      |-> p.inputCollapsed,
                astSectionCollapsed |-> p.astSectionCollapsed,
                chunksCollapsed     |-> p.chunksCollapsed,
                sectionOrder        |-> join(p.sectionOrder) # join(DefaultOrder),
                maxOverflow         |-> p.maxOverflowRatio # 15,
                layout              |-> p.layoutMode # "row",
                theme               |-> p.theme # systemTheme]
        value == [text                |-> encodeText(p.text),
                  library             |-> Word(p.library),
                  chunkdownAlgorithm  |-> Word(p.chunkdownAlgorithm),
                  langchainAlgorithm  |-> Word(p.langchainAlgorithm),
                  mastraAlgorithm     |-> Word(p.mastraAlgorithm),
                  chunkSize           |-> IntToString(p.chunkSize),
                  astCollapsed        |-> Word("true"),
                  libraryCollapsed    |-> Word("true"),
                  inputCollapsed      |-> Word("true"),
                  astSectionCollapsed |-> Word("true"),
                  chunksCollapsed     |-> Word("true"),
                  sectionOrder        |-> join(p.sectionOrder),
                  maxOverflow         |-> RatioToString(p.maxOverflowRatio),
                  layout              |-> Word(p.layoutMode),
                  theme               |-> Word(p.theme)]
    IN  [name \in { n \in ParamNames : set[n] } |-> value[name]]

\* The toast updateURL shows when the text does not fit into the URL.
URLToast(p) ==
    IF p.text # <<>> /\ TooLong(encodeText(p.text))
    THEN "Text too large to include in URL. Share functionality limited."
    ELSE p.toast

\* sectionOrder.indexOf(sectionId), counted from 1; 0 for JavaScript's -1.
indexOf(order, sectionId) ==
    IF \E j \in 1..Len(order) : order[j] = sectionId
    THEN CHOOSE j \in 1..Len(order) :
            /\ order[j] = sectionId
            /\ \A k \in 1..(j - 1) : order[k] # sectionId
    ELSE 0

\* A bug for moveSection: the target slot is overwritten, not swapped.
moveSectionOverwriting(order, sectionId, direction) ==
    LET currentIndex == indexOf(order, sectionId)
        newIndex == IF direction = "left" THEN currentIndex - 1 ELSE currentIndex + 1
    IN  IF newIndex < 1 \/ newIndex > Len(order) THEN order
        ELSE [order EXCEPT ![newIndex] = order[currentIndex]]

\* moveSection: the order it sets, or the order as it is when it returns
\* at the bounds check.
moveSection(order, sectionId, direction) ==
    LET currentIndex == indexOf(order, sectionId)
        newIndex == IF direction = "left" THEN currentIndex - 1 ELSE currentIndex + 1
    IN  IF newIndex < 1 \/ newIndex > Len(order) THEN order
        ELSE IF currentIndex = 0 THEN [order EXCEPT ![newIndex] = "undefined"]
        ELSE [order EXCEPT ![currentIndex] = order[newIndex],
                           ![newIndex] = order[currentIndex]]

\* canMove
canMove(order, sectionId, direction) ==
    LET currentIndex == indexOf(order, sectionId)
    IN  IF direction = "left" THEN currentIndex > 1
        ELSE currentIndex < Len(order)

\* The page as constructed and never used.
IdlePage ==
    /\ page = DefaultState
    /\ browser = [searchParams |-> [name \in {} |-> <<>>],
                  navigation |-> <<>>, prefersDark |-> FALSE]
    /\ timer = FALSE
    /\ edits = 0
    /\ loads = 0

(***************************************************************************)
(* The parts of the state a specification does not use.                    *)
(***************************************************************************)
IdleAST ==
    /\ root = <<>>
    /\ ast = Undefined
    /\ prev = Undefined
    /\ flat = Undefined
    /\ heap = [next |-> 1, writes |-> {}]
    /\ calls = 0

IdleSplit ==
    /\ text = <<>>
    /\ config = Undefined
    /\ ret = Undefined
    /\ earlier = Undefined

IdleRegistry == splitters = GlobalSplitters

IdleHook ==
    /\ splitterId = "chunkdown"
    /\ chunks = <<>>
    /\ isLoading = FALSE
    /\ error = Null
    /\ pending = <<>>
    /\ effectDue = FALSE

(***************************************************************************)
(* The sectionizer as a state machine: a caller holds one flat Root and    *)
(* calls createHierarchicalAST and flattenHierarchicalAST on it.           *)
(***************************************************************************)
InitAST ==
    /\ \E n \in 0..MaxNodes : \E ks \in [1..n -> NodeKinds] :
          root = [i \in 1..n |-> MkNode(ks[i], i)]
    /\ ast = Undefined
    /\ prev = Undefined
    /\ flat = Undefined
    /\ heap = [next |-> Len(root) + 1, writes |-> {}]
    /\ calls = 0
    /\ IdleSplit
    /\ IdleHook
    /\ IdleRegistry
    /\ IdlePage

CreateHierarchicalAST ==
    /\ calls < MaxCalls
    /\ LET r == createHierarchicalAST(root, [heap EXCEPT !.writes = {}])
       IN  /\ ast' = r.ast
           /\ heap' = r.h
    /\ prev' = ast
    /\ calls' = calls + 1
    /\ UNCHANGED <<root, flat, splitVars, hookVars, registryVars, pageVars>>

FlattenHierarchicalAST ==
    /\ ast # Undefined
    /\ flat' = flattenHierarchicalAST(ast)
    /\ UNCHANGED <<root, ast, prev, heap, calls, splitVars, hookVars, registryVars, pageVars>>

NextAST == CreateHierarchicalAST \/ FlattenHierarchicalAST

SpecAST == InitAST /\ [][NextAST]_vars

(***************************************************************************)
(* Text.  A text is a sequence of tokens: a block of markdown (a heading   *)
(* line, a paragraph, a thematic break) with its length in characters, or  *)
(* one whitespace character.                                               *)
(***************************************************************************)
Whitespace == [type |-> "whitespace", depth |-> 0, len |-> 1]

TokenKinds ==
    {Whitespace}
    \cup { [type |-> "heading", depth |-> d, len |-> 1] : d \in 1..2 }
    \cup { [type |-> "paragraph", depth |-> 0, len |-> n] : n \in 1..MaxLeafSize }
    \cup { [type |-> "thematicBreak", depth |-> 0, len |-> 1] }

\* String.prototype.trim: the text without its leading and trailing whitespace.
RECURSIVE trimStart(_)
trimStart(t) ==
    IF t # <<>> /\ Head(t).type = "whitespace" THEN trimStart(Tail(t)) ELSE t

RECURSIVE trimEnd(_)
trimEnd(t) ==
    IF t # <<>> /\ t[Len(t)].type = "whitespace"
    THEN trimEnd(SubSeq(t, 1, Len(t) - 1)) ELSE t

trim(t) == trimEnd(trimStart(t))

\* A bug for IsBlank: !text, without the trim.
IsBlankUntrimmed(t) == t = <<>>

\* !text.trim()
IsBlank(t) == trim(t) = <<>>

(***************************************************************************)
(* The markdown parser (mdast-util-from-markdown), by its output contract: *)
(* the blocks of the text in document order, each with its source span;    *)
(* whitespace between blocks belongs to no block.                          *)
(***************************************************************************)
RECURSIVE parseFrom(_, _, _, _)
parseFrom(t, j, offset, nodes) ==
    IF j > Len(t) THEN nodes
    ELSE IF t[j].type = "whitespace"
    THEN parseFrom(t, j + 1, offset + t[j].len, nodes)
    ELSE parseFrom(t, j + 1, offset + t[j].len,
                   Append(nodes, [type     |-> t[j].type,
                                  depth    |-> t[j].depth,
                                  position |-> [start |-> offset,
                                                end   |-> offset + t[j].len],
                                  id       |-> Len(nodes) + 1]))

parse(t) == parseFrom(t, 1, 0, <<>>)

(***************************************************************************)
(* chunkdown, the recursive chunk splitter.  A chunk is the sequence of    *)
(* the pieces of source it holds; a piece is a block, or a slice of one,   *)
(* with its source span.  Sizes count the characters of blocks.            *)
(***************************************************************************)
\* The size of a node: the length of its source span; a Section's is that
\* of its heading and of its children.
RECURSIVE Size(_)
RECURSIVE SizeAll(_)
SizeAll(nodes) ==
    IF nodes = <<>> THEN 0 ELSE Size(Head(nodes)) + SizeAll(Tail(nodes))

Size(node) ==
    IF isSection(node) THEN Size(node.heading) + SizeAll(node.children)
    ELSE node.position.end - node.position.start

Piece(node, from, to) ==
    [id |-> node.id, type |-> node.type, depth |-> node.depth,
     start |-> from, end |-> to]

\* The pieces of a node kept whole: its blocks in document order.
Pieces(node) ==
    LET leaves == flatten(<<node>>)
    IN  [j \in 1..Len(leaves) |->
            Piece(leaves[j], leaves[j].position.start, leaves[j].position.end)]

PieceLen(p) == p.end - p.start

RECURSIVE ChunkLen(_)
ChunkLen(chunk) ==
    IF chunk = <<>> THEN 0 ELSE PieceLen(Head(chunk)) + ChunkLen(Tail(chunk))

\* Forced raw slicing of a leaf into windows of chunkSize characters.
ForceSplit(leaf, chunkSize) ==
    LET size == Size(leaf)
        n    == (size + chunkSize - 1) \div chunkSize
    IN  [k \in 1..n |->
            << Piece(leaf,
                     leaf.position.start + (k - 1) * chunkSize,
                     IF k * chunkSize < size
                     THEN leaf.position.start + k * chunkSize
                     ELSE leaf.position.end) >>]

\* The buffer, flushed as a completed chunk when it is not empty.
Flush(out, buffer) == IF buffer = <<>> THEN out ELSE Append(out, buffer)

\* Greedy sibling packing over children from index i on, with the running
\* buffer and the chunks completed so far; ratio is maxOverflowRatio in
\* tenths.
RECURSIVE splitChildren(_, _, _, _, _, _)
splitChildren(children, i, buffer, out, chunkSize, ratio) ==
    IF i > Len(children) THEN Flush(out, buffer)
    ELSE LET child == children[i]
             size  == Size(child)
         IN  IF size = 0
             THEN splitChildren(children, i + 1, buffer, out, chunkSize, ratio)
             ELSE IF size > chunkSize
             THEN \* never merged with siblings
                  LET own == IF isSection(child)
                             THEN splitChildren(<<child.heading>> \o child.children,
                                                1, <<>>, <<>>, chunkSize, ratio)
                             ELSE IF size * 10 > chunkSize * ratio
                             THEN ForceSplit(child, chunkSize)
                             ELSE << Pieces(child) >>
                  IN  splitChildren(children, i + 1, <<>>,
                                    Flush(out, buffer) \o own, chunkSize, ratio)
             ELSE IF buffer # <<>> /\ ChunkLen(buffer) + size > chunkSize
             THEN splitChildren(children, i + 1, Pieces(child),
                                Append(out, buffer), chunkSize, ratio)
             ELSE splitChildren(children, i + 1, buffer \o Pieces(child),
                                out, chunkSize, ratio)

\* chunkdown({chunkSize, maxOverflowRatio}).splitText(text): a
\* configuration error before anything is parsed, or the chunks.
chunkdownSplitText(t, chunkSize, ratio) ==
    IF chunkSize <= 0 \/ ratio < 10
    THEN [status |-> "threw", error |-> "ConfigurationError", parsed |-> FALSE]
    ELSE LET blocks == parse(t)
             tree   == createHierarchicalAST(blocks,
                           [next |-> Len(blocks) + 1, writes |-> {}]).ast
         IN  [status |-> "returned",
              chunks |-> splitChildren(tree.children, 1, <<>>, <<>>, chunkSize, ratio),
              parsed |-> TRUE]

(***************************************************************************)
(* ChunkdownSplitter, the adapter.                                         *)
(***************************************************************************)
DefaultChunkSize == 200

\* maxOverflowRatio is counted in tenths: 15 is 1.5.
DefaultMaxOverflowRatio == 15

\* A bug for ConfigChunkSize: config.chunkSize || 200, which replaces 0.
ConfigChunkSizeFalsy(cfg) ==
    IF "chunkSize" \in DOMAIN cfg /\ cfg.chunkSize # 0
    THEN cfg.chunkSize ELSE DefaultChunkSize

\* A bug for ConfigChunkSize: the key is misspelt, the default always used.
ConfigChunkSizeIgnored(cfg) == DefaultChunkSize

\* const { chunkSize = 200 } = config
ConfigChunkSize(cfg) ==
    IF "chunkSize" \in DOMAIN cfg THEN cfg.chunkSize ELSE DefaultChunkSize

\* A bug for ConfigMaxOverflowRatio: the overflow allowed beyond chunkSize
\* (0.5) is passed where the ratio (1.5) is expected.
ConfigMaxOverflowRatioFraction(cfg) ==
    IF "maxOverflowRatio" \in DOMAIN cfg
    THEN cfg.maxOverflowRatio - 10 ELSE DefaultMaxOverflowRatio - 10

\* const { maxOverflowRatio = 1.5 } = config
ConfigMaxOverflowRatio(cfg) ==
    IF "maxOverflowRatio" \in DOMAIN cfg
    THEN cfg.maxOverflowRatio ELSE DefaultMaxOverflowRatio

\* A bug for SplitText: the chunks are pushed to an array that outlives
\* the call, so a call returns those of the call before it as well.
SplitTextAccumulating(t, cfg) ==
    LET outcome == chunkdownSplitText(t, ConfigChunkSize(cfg),
                                      ConfigMaxOverflowRatio(cfg))
    IN  IF outcome.status = "returned" /\ ret # Undefined
           /\ ret.outcome.status = "returned"
        THEN [outcome EXCEPT !.chunks = ret.outcome.chunks \o @]
        ELSE outcome

\* A bug for SplitText: chunkdown() built without the options object.
SplitTextUnconfigured(t, cfg) ==
    chunkdownSplitText(t, DefaultChunkSize, DefaultMaxOverflowRatio)

\* A bug for SplitText: splitter.splitText(text.trim()), whose spans are
\* offsets into the trimmed text.
SplitTextTrimmed(t, cfg) ==
    chunkdownSplitText(trim(t), ConfigChunkSize(cfg), ConfigMaxOverflowRatio(cfg))

\* ChunkdownSplitter.splitText(text, config)
SplitText(t, cfg) ==
    chunkdownSplitText(t, ConfigChunkSize(cfg), ConfigMaxOverflowRatio(cfg))

\* The configurations a caller passes: chunkSize and maxOverflowRatio (in
\* tenths: 0.5, 1.0, 1.5, 2.0), each present or not.
ChunkSizes == (0 - 1)..MaxChunkSize

Ratios == {5, 10, 15, 20}

Configs ==
    { [algorithm |-> "markdown", chunkSize |-> c, maxOverflowRatio |-> r] :
        c \in ChunkSizes, r \in Ratios }
    \cup { [algorithm |-> "markdown", chunkSize |-> c] : c \in ChunkSizes }
    \cup { [algorithm |-> "markdown", maxOverflowRatio |-> r] : r \in Ratios }
    \cup { [algorithm |-> "markdown"] }

(***************************************************************************)
(* A caller that calls ChunkdownSplitter.splitText directly.               *)
(***************************************************************************)
InitSplit ==
    /\ \E n \in 0..MaxTokens : \E t \in [1..n -> TokenKinds] : text = t
    /\ config \in Configs
    /\ ret = Undefined
    /\ earlier = Undefined
    /\ IdleAST
    /\ IdleHook
    /\ IdleRegistry
    /\ IdlePage

SplitTextCall ==
    /\ ret' = [text |-> text, config |-> config, outcome |-> SplitText(text, config)]
    /\ earlier' \in {earlier, ret}
    /\ UNCHANGED <<text, config, astVars, hookVars, registryVars, pageVars>>

NextSplit == SplitTextCall

SpecSplit == InitSplit /\ [][NextSplit]_vars

(***************************************************************************)
(* A caller that splits a document of two Sections of the same depth, each *)
(* a heading and one paragraph, written with or without blank space        *)
(* between the blocks.                                                     *)
(***************************************************************************)
TwoSections(d, n1, n2, spaced) ==
    LET gap == IF spaced THEN <<Whitespace>> ELSE <<>>
    IN  <<[type |-> "heading", depth |-> d, len |-> 1]>> \o gap
        \o <<[type |-> "paragraph", depth |-> 0, len |-> n1]>> \o gap
        \o <<[type |-> "heading", depth |-> d, len |-> 1]>> \o gap
        \o <<[type |-> "paragraph", depth |-> 0, len |-> n2]>>

InitTwoSections ==
    /\ \E d \in 1..2 : \E n1 \in 1..MaxLeafSize : \E n2 \in 1..MaxLeafSize :
       \E spaced \in BOOLEAN :
          text = TwoSections(d, n1, n2, spaced)
    /\ config \in Configs
    /\ ret = Undefined
    /\ earlier = Undefined
    /\ IdleAST
    /\ IdleHook
    /\ IdleRegistry
    /\ IdlePage

SpecTwoSections == InitTwoSections /\ [][NextSplit]_vars

(***************************************************************************)
(* A caller that makes call after call on the one ChunkdownSplitter the    *)
(* registry holds, changing chunkSize between calls, and that calls        *)
(* createHierarchicalAST on the Root parsed from the text, as the AST view *)
(* does.                                                                   *)
(***************************************************************************)
CallTexts ==
    { [j \in 1..n |-> Whitespace] : n \in 0..MaxBlank }
    \cup { <<[type |-> "paragraph", depth |-> 0, len |-> MaxLeafSize]>>,
           <<Whitespace, [type |-> "heading", depth |-> 1, len |-> 1],
             [type |-> "paragraph", depth |-> 0, len |-> 1]>>,
           TwoSections(1, 1, MaxLeafSize, TRUE) }

InitCalls ==
    /\ text \in CallTexts
    /\ config \in Configs
    /\ ret = Undefined
    /\ earlier = Undefined
    /\ root = parse(text)
    /\ ast = Undefined
    /\ prev = Undefined
    /\ flat = Undefined
    /\ heap = [next |-> Len(root) + 1, writes |-> {}]
    /\ calls = 0
    /\ IdleHook
    /\ IdleRegistry
    /\ IdlePage

\* setChunkSize(Number(e.target.value)): the next call gets another chunkSize.
SetChunkSize ==
    /\ \E c \in ChunkSizes :
          /\ config # [algorithm |-> "markdown", chunkSize |-> c] @@ config
          /\ config' = [algorithm |-> "markdown", chunkSize |-> c] @@ config
    /\ UNCHANGED <<text, ret, earlier, astVars, hookVars, registryVars, pageVars>>

NextCalls == SplitTextCall \/ SetChunkSize \/ CreateHierarchicalAST

SpecCalls == InitCalls /\ [][NextCalls]_vars

(***************************************************************************)
(* The splitter registry and useTextSplitter.                              *)
(***************************************************************************)
\* The ids registered in the global registry.
Registered == {"chunkdown", "langchain", "llamaindex", "mastra"}

\* splitterRegistry.get(splitterId) is defined.
RegistryHas(id) == id \in Registered

\* A value thrown or rejected with that is no instance of Error.
NonError == "a value that is no Error"

\* What a third-party splitter's promise can settle with: the chunks it
\* makes of the text it was given, or a rejection, with an Error or with
\* another value.
ExternalOutcomes(t) ==
    { [status |-> "returned", chunks |-> << <<[type |-> "external", of |-> t]>> >>,
       parsed |-> TRUE],
      [status |-> "threw", error |-> "Error", parsed |-> TRUE],
      [status |-> "threw", error |-> NonError, parsed |-> TRUE] }

\* err instanceof Error ? err : new Error('Unknown error')
Caught(err) ==
    IF err = NonError THEN [message |-> "Unknown error"] ELSE [message |-> err]

\* The effect of useTextSplitter, up to its await.
HookEffect ==
    /\ effectDue
    /\ effectDue' = FALSE
    /\ IF IsBlank(text)
       THEN \* setChunks([]); setError(null); return
            /\ chunks' = <<>>
            /\ error' = Null
            /\ UNCHANGED <<isLoading, pending>>
       ELSE IF ~RegistryHas(splitterId)
       THEN \* throw new Error('Splitter not found'), caught
            /\ chunks' = <<>>
            /\ error' = Caught("Splitter not found")
            /\ isLoading' = FALSE
            /\ UNCHANGED pending
       ELSE IF splitterId = "chunkdown" /\ SplitText(text, config).status = "threw"
       THEN \* the synchronous splitText threw, caught
            /\ chunks' = <<>>
            /\ error' = Caught(SplitText(text, config).error)
            /\ isLoading' = FALSE
            /\ UNCHANGED pending
       ELSE \* setIsLoading(true); setError(null); await splitter.splitText(...)
            /\ isLoading' = TRUE
            /\ error' = Null
            /\ pending' = Append(pending,
                                 IF splitterId = "chunkdown"
                                 THEN [outcomes |-> {SplitText(text, config)},
                                       microtask |-> TRUE]
                                 ELSE [outcomes |-> ExternalOutcomes(text),
                                       microtask |-> FALSE])
            /\ UNCHANGED chunks
    /\ UNCHANGED <<astVars, splitVars, splitterId, registryVars, pageVars>>

\* A suspended run resumes: setChunks(result), or the catch block, and
\* the finally block.
Settle(k, outcome) ==
    /\ pending' = SubSeq(pending, 1, k - 1) \o SubSeq(pending, k + 1, Len(pending))
    /\ IF outcome.status = "returned"
       THEN chunks' = outcome.chunks /\ UNCHANGED error
       ELSE chunks' = <<>> /\ error' = Caught(outcome.error)
    /\ isLoading' = FALSE
    /\ UNCHANGED <<astVars, splitVars, splitterId, effectDue, registryVars, pageVars>>

HookSettle ==
    \E k \in 1..Len(pending) : \E outcome \in pending[k].outcomes :
        Settle(k, outcome)

\* The texts and splitter ids the hook is mounted with.
HookTexts ==
    { [j \in 1..n |-> Whitespace] : n \in 0..MaxBlank }
    \cup { <<[type |-> "paragraph", depth |-> 0, len |-> MaxLeafSize]>>,
           <<Whitespace, [type |-> "heading", depth |-> 1, len |-> 1],
             [type |-> "paragraph", depth |-> 0, len |-> 1]>> }

SplitterIds == {"chunkdown", "langchain", "unregistered"}

InitHook ==
    /\ text \in HookTexts
    /\ config \in Configs
    /\ ret = Undefined
    /\ earlier = Undefined
    /\ splitterId \in SplitterIds
    /\ chunks = <<>>
    /\ isLoading = FALSE
    /\ error = Null
    /\ pending = <<>>
    /\ effectDue = TRUE
    /\ IdleAST
    /\ IdleRegistry
    /\ IdlePage

\* The component is rendered with another text, which schedules the effect
\* again.  A run that awaits a value that is no promise (chunkdown's
\* splitText is synchronous) resumes in a microtask, before any render.
SetText ==
    /\ ~effectDue
    /\ Len(pending) < MaxPending
    /\ \A k \in 1..Len(pending) : ~pending[k].microtask
    /\ text' \in HookTexts \ {text}
    /\ effectDue' = TRUE
    /\ UNCHANGED <<astVars, config, ret, earlier, splitterId, chunks, isLoading, error, pending, registryVars, pageVars>>

NextHook == HookEffect \/ HookSettle \/ SetText \/ SplitTextCall

SpecHook == InitHook /\ [][NextHook]_vars

(***************************************************************************)
(* A SplitterRegistry from its construction on, with the register calls    *)
(* made on it.                                                             *)
(***************************************************************************)
SplitterClassIds == {"chunkdown", "langchain", "llamaindex", "mastra"}

\* The TextSplitter objects handed to register: disabled?: boolean.
Splitters ==
    { [id |-> id] : id \in SplitterClassIds }
    \cup { [id |-> id, disabled |-> d] : id \in SplitterClassIds, d \in BOOLEAN }

\* new SplitterRegistry()
InitRegistry ==
    /\ splitters = <<>>
    /\ IdlePage
    /\ IdleAST
    /\ IdleSplit
    /\ IdleHook

Register(splitter) ==
    /\ splitters' = register(splitters, splitter)
    /\ UNCHANGED <<astVars, splitVars, hookVars, pageVars>>

NextRegistry == \E splitter \in Splitters : Register(splitter)

SpecRegistry == InitRegistry /\ [][NextRegistry]_vars

(***************************************************************************)
(* The LangChain and LlamaIndex adapters: splitText picks a third-party    *)
(* splitter by config.algorithm.                                           *)
(***************************************************************************)
\* readonly algorithms = [...] of the two adapters.
LangchainAlgorithms == <<"markdown", "character", "sentence">>

LlamaIndexAlgorithms == <<"sentence", "markdown">>

Algorithms(id) ==
    IF id = "langchain" THEN LangchainAlgorithms ELSE LlamaIndexAlgorithms

\* const { ..., algorithm = 'markdown' } = config
ConfigAlgorithm(cfg) ==
    IF "algorithm" \in DOMAIN cfg THEN cfg.algorithm ELSE "markdown"

\* new Error(`Unknown algorithm: ${algorithm}`)
UnknownAlgorithm(algorithm) == [message |-> <<"Unknown algorithm: ", algorithm>>]

\* A bug for LangchainDispatch: the case 'sentence' is missing.
LangchainDispatchNoSentence(algorithm) ==
    CASE algorithm = "markdown"  -> [class |-> "MarkdownTextSplitter"]
      [] algorithm = "character" -> [class |-> "CharacterTextSplitter"]
      [] OTHER                   -> Undefined

\* LangchainSplitter.splitText's switch: the splitter constructed, or
\* undefined in the default case.
LangchainDispatch(algorithm) ==
    CASE algorithm = "markdown"  -> [class |-> "MarkdownTextSplitter"]
      [] algorithm = "character" -> [class |-> "CharacterTextSplitter"]
      [] algorithm = "sentence"  -> [class |-> "RecursiveCharacterTextSplitter"]
      [] OTHER                   -> Undefined

\* LlamaIndexSplitter.splitText's switch.
LlamaIndexDispatch(algorithm) ==
    CASE algorithm = "sentence" -> [class |-> "SentenceSplitter"]
      [] algorithm = "markdown" -> [class |-> "MarkdownNodeParser"]
      [] OTHER                  -> Undefined

\* What the promise of splitText settles with once a third-party splitter
\* was constructed: the chunks that splitter makes of the text, or what it
\* throws.
DispatchedOutcomes(t, class) ==
    { [status |-> "returned", splitter |-> class,
       chunks |-> << <<[type |-> "external", of |-> t]>> >>],
      [status |-> "threw", splitter |-> class,
       error |-> [message |-> <<"thrown by ", class>>]] }

\* splitText(text, config) of the adapter with the given id: the outcomes
\* its promise can settle with.
AdapterSplitText(id, t, cfg) ==
    LET algorithm == ConfigAlgorithm(cfg)
        splitter  == IF id = "langchain" THEN LangchainDispatch(algorithm)
                     ELSE LlamaIndexDispatch(algorithm)
    IN  IF splitter = Undefined
        THEN { [status |-> "threw", error |-> UnknownAlgorithm(algorithm)] }
        ELSE DispatchedOutcomes(t, splitter.class)

\* The algorithm names a caller passes: those of the two adapters' lists
\* and one that no adapter lists.
AlgorithmNames == {"markdown", "character", "sentence", "semantic"}

AdapterConfigs ==
    { [chunkSize |-> c, algorithm |-> a] :
        c \in 1..MaxChunkSize, a \in AlgorithmNames }
    \cup { [chunkSize |-> c] : c \in 1..MaxChunkSize }

AdapterIds == {"langchain", "llamaindex"}

\* A caller that calls splitText of one of the two adapters directly.
InitAdapters ==
    /\ text \in HookTexts
    /\ config \in AdapterConfigs
    /\ ret = Undefined
    /\ earlier = Undefined
    /\ splitterId \in AdapterIds
    /\ chunks = <<>>
    /\ isLoading = FALSE
    /\ error = Null
    /\ pending = <<>>
    /\ effectDue = FALSE
    /\ IdleAST
    /\ IdleRegistry
    /\ IdlePage

AdapterSplitTextCall ==
    /\ \E outcome \in AdapterSplitText(splitterId, text, config) :
          ret' = [splitterId |-> splitterId, text |-> text, config |-> config,
                  outcome |-> outcome]
    /\ UNCHANGED <<text, config, earlier, astVars, hookVars, registryVars, pageVars>>

NextAdapters == AdapterSplitTextCall

SpecAdapters == InitAdapters /\ [][NextAdapters]_vars

(***************************************************************************)
(* The page as a state machine.  The load effect runs on mount and when    *)
(* searchParams changes; a change of any state updateURL depends on        *)
(* restarts the 500 ms timer of the debounce effect; when the timer fires  *)
(* updateURL calls router.replace, and the new searchParams reach the      *)
(* component when the router commits the navigation, which is later.       *)
(***************************************************************************)
NoParams == [name \in {} |-> <<>>]

\* What no step of the page touches.
otherVars == <<astVars, splitVars, hookVars, registryVars>>

\* The state updateURL depends on: everything but the toast.
Dependencies(p) == [p EXCEPT !.toast = ""]

\* A render with the state q after one with the state p: the debounce
\* effect runs again when updateURL is a new function.
Rearmed(p, q) == IF Dependencies(p) # Dependencies(q) THEN TRUE ELSE timer

\* The first render's effects: the load effect, then, isInitialized being
\* true in the next render, the debounce effect.
Mount ==
    /\ ~page.isInitialized
    /\ page' = LoadFromURL(page, browser.searchParams, browser.prefersDark)
    /\ timer' = TRUE
    /\ UNCHANGED <<browser, edits, loads, otherVars>>

\* A control's handler sets the state to q.
Control(q) ==
    /\ page.isInitialized
    /\ q # page
    /\ page' = q
    /\ timer' = Rearmed(page, q)
    /\ UNCHANGED <<browser, otherVars>>

\* onChange of the textarea
PageSetText(t) == Control([page EXCEPT !.text = t])

\* handleLibraryChange
HandleLibraryChange(newLibrary) == Control([page EXCEPT !.library = newLibrary])

\* handleAlgorithmChange
HandleAlgorithmChange(algorithm) ==
    /\ \E j \in 1..Len(LibraryAlgorithms(page.library)) :
          LibraryAlgorithms(page.library)[j] = algorithm
    /\ Control(IF page.library = "chunkdown"
               THEN [page EXCEPT !.chunkdownAlgorithm = algorithm]
               ELSE IF page.library = "mastra"
               THEN [page EXCEPT !.mastraAlgorithm = algorithm]
               ELSE [page EXCEPT !.langchainAlgorithm = algorithm])

\* onChange of the chunk size slider and number input
PageSetChunkSize(n) == Control([page EXCEPT !.chunkSize = n])

\* onChange of the max overflow slider and number input, shown for chunkdown
PageSetMaxOverflowRatio(r) ==
    /\ page.library = "chunkdown"
    /\ Control([page EXCEPT !.maxOverflowRatio = r])

\* onClick of the layout buttons
PageSetLayoutMode(m) == Control([page EXCEPT !.layoutMode = m])

\* onClick of the theme button
PageSetTheme ==
    Control([page EXCEPT !.theme = IF page.theme = "light" THEN "dark" ELSE "light"])

CollapseFlags ==
    {"astCollapsed", "libraryCollapsed", "inputCollapsed", "astSectionCollapsed",
     "chunksCollapsed"}

\* onClick of a collapse button: setXCollapsed(!xCollapsed)
ToggleCollapsed(flag) == Control([page EXCEPT ![flag] = ~page[flag]])

\* onClick of a move button, which is disabled when canMove is false
MoveSection(sectionId, direction) ==
    /\ canMove(page.sectionOrder, sectionId, direction)
    /\ Control([page EXCEPT !.sectionOrder =
                   moveSection(page.sectionOrder, sectionId, direction)])

\* The timer of the debounce effect fires: updateURL().
UpdateURL ==
    /\ timer
    /\ timer' = FALSE
    /\ page' = [page EXCEPT !.toast = URLToast(page)]
    /\ browser' = [browser EXCEPT
                     !.navigation = <<URLParams(page, browser.prefersDark)>>]
    /\ UNCHANGED <<edits, loads, otherVars>>

\* The router commits the navigation: useSearchParams returns the new
\* parameters and, if they differ from the old ones, the load effect runs.
SearchParamsChange ==
    /\ browser.navigation # <<>>
    /\ LET params == browser.navigation[1]
           q == IF params = browser.searchParams THEN page
                ELSE LoadFromURL(page, params, browser.prefersDark)
       IN  /\ browser' = [browser EXCEPT !.searchParams = params,
                                         !.navigation = <<>>]
           /\ page' = q
           /\ timer' = Rearmed(page, q)
    /\ UNCHANGED <<edits, loads, otherVars>>

\* The URL is changed from outside the page (a link, the history) while
\* the page stays mounted.
Navigate(params) ==
    /\ page.isInitialized
    /\ params # browser.searchParams
    /\ LET q == LoadFromURL(page, params, browser.prefersDark)
       IN  /\ page' = q
           /\ timer' = Rearmed(page, q)
    /\ browser' = [browser EXCEPT !.searchParams = params, !.navigation = <<>>]
    /\ UNCHANGED otherVars

\* The values the controls of the model set.
PageTexts == {<<>>, <<"a">>, <<"e-acute">>, <<LoneSurrogate>>}

\* The options of the library picker that are not disabled and that
\* libraryConfig has an entry for.
UiLibraries == {"chunkdown", "langchain"}

UiAlgorithms == {"markdown", "character", "sentence"}

UiChunkSizes == {0, 1, 2000}

UiRatios == {10, 30}

Directions == {"left", "right"}

\* A freshly opened page without parameters, used through its controls.
InitShare ==
    /\ page = DefaultState
    /\ \E dark \in BOOLEAN :
          browser = [searchParams |-> NoParams, navigation |-> <<>>,
                     prefersDark |-> dark]
    /\ timer = FALSE
    /\ edits = 0
    /\ loads = 0
    /\ IdleAST
    /\ IdleSplit
    /\ IdleHook
    /\ IdleRegistry

\* A run of at most MaxEdits changes made through the controls.
Edit == edits < MaxEdits /\ edits' = edits + 1 /\ UNCHANGED loads

NextShare ==
    \/ Mount
    \/ Edit /\ \E t \in PageTexts : PageSetText(t)
    \/ Edit /\ \E l \in UiLibraries : HandleLibraryChange(l)
    \/ Edit /\ \E a \in UiAlgorithms : HandleAlgorithmChange(a)
    \/ Edit /\ \E n \in UiChunkSizes : PageSetChunkSize(n)
    \/ Edit /\ \E r \in UiRatios : PageSetMaxOverflowRatio(r)
    \/ Edit /\ \E m \in {"row", "column"} : PageSetLayoutMode(m)
    \/ Edit /\ PageSetTheme
    \/ Edit /\ \E flag \in CollapseFlags : ToggleCollapsed(flag)
    \/ Edit /\ \E id \in SectionIds, d \in Directions : MoveSection(id, d)
    \/ UpdateURL
    \/ SearchParamsChange

SpecShare == InitShare /\ [][NextShare]_vars

\* One parameter with one value.
Param(name, value) == [n \in {name} |-> value]

\* URLs as anyone can write them: parameters with values the load effect
\* accepts and values it must not apply.
LoadUrls ==
    { Param("chunkSize", v) :
        v \in { <<"1">>, <<"2", "0", "0", "0">>, <<"2", "0", "0", "1">>, <<"0">>,
                <<"1", "2", "p", "x">>, <<"a", "b", "c">> } }
    \cup { Param("maxOverflow", v) :
        v \in { <<"3">>, <<"1", ".", "2">>, <<"3", ".", "1">>, <<"0", ".", "9">>,
                <<"x">> } }
    \cup { Param("library", Word(l)) : l \in {"mastra", "langchain", "llamaindex"} }
    \cup { Param("chunkdownAlgorithm", Word(a)) : a \in {"markdown", "character"} }
    \cup { Param("langchainAlgorithm", Word(a)) : a \in {"sentence", "recursive"} }
    \cup { Param("mastraAlgorithm", Word(a)) : a \in {"character", "sentence"} }
    \cup { Param("layout", Word(m)) : m \in {"column", "grid"} }
    \cup { Param("sectionOrder", v) :
        v \in { join(<<"chunks", "ast", "input", "library">>),
                join(<<"library", "library", "input", "ast">>),
                join(<<"library", "input", "ast", "chunks", "library">>),
                join(<<"input", "ast", "chunks">>) } }
    \cup { Param("text", v) :
        v \in { <<"base64", "a">>, <<"a">>, <<"base64", "A9">> } }
    \cup { NoParams }

\* A page opened with any of these URLs, and then shown other ones.
InitLoad ==
    /\ page = DefaultState
    /\ \E params \in LoadUrls, dark \in BOOLEAN :
          browser = [searchParams |-> params, navigation |-> <<>>,
                     prefersDark |-> dark]
    /\ timer = FALSE
    /\ edits = 0
    /\ loads = 0
    /\ IdleAST
    /\ IdleSplit
    /\ IdleHook
    /\ IdleRegistry

\* A run of at most MaxLoads URLs opened from outside.
Load == loads < MaxLoads /\ loads' = loads + 1 /\ UNCHANGED edits

NextLoad ==
    \/ Mount
    \/ Load /\ \E params \in LoadUrls : Navigate(params)
    \/ UpdateURL
    \/ SearchParamsChange

SpecLoad == InitLoad /\ [][NextLoad]_vars

\* The section orders a URL can carry: orders of the four sections, and
\* lists that are no such order.
OrderUrls ==
    { Param("sectionOrder", v) :
        v \in { join(<<"chunks", "ast", "input", "library">>),
                join(<<"input", "library", "chunks", "ast">>),
                join(<<"library", "library", "input", "ast">>),
                join(<<"library", "input", "ast", "chunks", "library">>),
                join(<<"input", "ast", "chunks">>),
                <<"library", ",", ",", "input", ",", "ast", ",", "chunks">> } }
    \cup { NoParams }

\* A page whose sections are moved and whose URL is changed at will.
InitOrder ==
    /\ page = DefaultState
    /\ \E params \in OrderUrls :
          browser = [searchParams |-> params, navigation |-> <<>>,
                     prefersDark |-> FALSE]
    /\ timer = FALSE
    /\ edits = 0
    /\ loads = 0
    /\ IdleAST
    /\ IdleSplit
    /\ IdleHook
    /\ IdleRegistry

NextOrder ==
    \/ Mount
    \/ UNCHANGED <<edits, loads>>
         /\ \E id \in SectionIds, d \in Directions : MoveSection(id, d)
    \/ UNCHANGED <<edits, loads>> /\ \E params \in OrderUrls : Navigate(params)
    \/ UpdateURL
    \/ SearchParamsChange

SpecOrder == InitOrder /\ [][NextOrder]_vars

(***************************************************************************)
(* Reading a tree.                                                         *)
(***************************************************************************)
Min(S) == CHOOSE x \in S : \A y \in S : x <= y

Elems(seq) == { seq[j] : j \in 1..Len(seq) }

\* Every Section of a children list, at any nesting depth.
RECURSIVE SectionsIn(_)
SectionsIn(children) ==
    UNION { IF isSection(children[j])
            THEN {children[j]} \cup SectionsIn(children[j].children)
            ELSE {} : j \in 1..Len(children) }

\* The Sections that are direct children of a children list.
ChildSections(children) == { c \in Elems(children) : isSection(c) }

\* Every children list of a tree: the root's and every Section's.
ListsIn(tree) ==
    {tree.children} \cup { s.children : s \in SectionsIn(tree.children) }

\* The addresses of the objects and arrays a HierarchicalRoot is made of.
Refs(tree) ==
    {tree.ref, tree.childrenRef}
    \cup UNION { {s.ref, s.childrenRef} : s \in SectionsIn(tree.children) }

HasPosition(node) == node.position # Undefined

\* The first index after i at which a run opened by a heading of depth D
\* ends: a heading of depth <= D or a thematic break, or the end of the list.
RunEnd(nodes, i, D) ==
    LET stops == { j \in (i + 1)..Len(nodes) :
                     \/ nodes[j].type = "heading" /\ nodes[j].depth <= D
                     \/ nodes[j].type = "thematicBreak" }
    IN  IF stops = {} THEN Len(nodes) + 1 ELSE Min(stops)

\* result is what a left-to-right scan of nodes from index i yields when
\* every heading captures exactly its maximal run and the node that ends a
\* run is processed next at the same level.
RECURSIVE Sectionized(_, _, _)
Sectionized(nodes, i, result) ==
    IF result = <<>> THEN i = Len(nodes) + 1
    ELSE IF i > Len(nodes) THEN FALSE
    ELSE IF nodes[i].type = "heading"
    THEN LET k == RunEnd(nodes, i, nodes[i].depth)
         IN  /\ isSection(Head(result))
             /\ Head(result).heading = nodes[i]
             /\ Sectionized(SubSeq(nodes, i + 1, k - 1), 1, Head(result).children)
             /\ Sectionized(nodes, k, Tail(result))
    ELSE /\ Head(result) = nodes[i]
         /\ Sectionized(nodes, i + 1, Tail(result))

(***************************************************************************)
(* C1.  For every heading of depth D met in a left-to-right scan of a      *)
(* sibling list, its Section captures exactly the maximal run of following *)
(* siblings up to the first heading of depth <= D or the first thematic    *)
(* break (or the end of the list); the stopping node is not consumed and   *)
(* is processed next at the same scan level.  This holds at every level.   *)
(***************************************************************************)
C1_MaximalRun == ast # Undefined => Sectionized(root, 1, ast.children)

\* A Section with a captured run is followed by the node that stopped it,
\* and a Section holds a nested Section.
C1_Witness ==
    /\ ast # Undefined
    /\ \E j \in 1..(Len(ast.children) - 1) :
          /\ isSection(ast.children[j])
          /\ ast.children[j].children # <<>>
          /\ ChildSections(ast.children[j].children) # {}
          /\ isSection(ast.children[j + 1])

(***************************************************************************)
(* C2.  A thematic break that stops a Section's collection.                *)
(***************************************************************************)
\* The thematic break at root[k] closes an open Section: some heading
\* before it has no thematic break between itself and root[k].
ClosesSection(k) ==
    /\ root[k].type = "thematicBreak"
    /\ \E i \in 1..(k - 1) :
          /\ root[i].type = "heading"
          /\ \A j \in (i + 1)..(k - 1) : root[j].type # "thematicBreak"

\* The innermost Section open at root[k]: that of the last heading before k.
InnermostOpen(k) ==
    LET i == CHOOSE i \in 1..(k - 1) :
                /\ root[i].type = "heading"
                /\ \A j \in (i + 1)..(k - 1) : root[j].type # "heading"
    IN  CHOOSE s \in SectionsIn(ast.children) : s.heading = root[i]

\* C2 as claimed: the break is standalone content of the children list
\* that holds the Section it terminated, at every nesting depth of that
\* Section, so also of the children list holding a nested sub-heading's
\* Section.
C2_BreakInParentOfTerminated ==
    ast # Undefined =>
        \A k \in 1..Len(root) :
            ClosesSection(k) =>
                \E list \in ListsIn(ast) :
                    /\ InnermostOpen(k) \in Elems(list)
                    /\ root[k] \in Elems(list)

\* C2 as amended: the break that closes open Sections is absorbed by no
\* Section at any depth; it is standalone content of the root's children
\* list, right after the root-level Section whose collection it stopped,
\* which holds every block up to the break.
C2_BreakAtRootLevel ==
    ast # Undefined =>
        \A k \in 1..Len(root) :
            ClosesSection(k) =>
                /\ \A s \in SectionsIn(ast.children) : root[k] \notin Elems(s.children)
                /\ \E j \in 2..Len(ast.children) :
                      /\ ast.children[j] = root[k]
                      /\ isSection(ast.children[j - 1])
                      /\ LET body == flatten(<<ast.children[j - 1]>>)
                         IN  body[Len(body)] = root[k - 1]

\* A thematic break follows a sub-heading nested in a shallower heading's Section.
C2_Witness ==
    /\ ast # Undefined
    /\ \E k \in 3..Len(root) :
          /\ ClosesSection(k)
          /\ root[k - 1].type = "heading"
          /\ root[k - 2].type = "heading"
          /\ root[k - 2].depth < root[k - 1].depth

(***************************************************************************)
(* C3.  Sectionizing loses, duplicates and reorders nothing: flattening    *)
(* the tree gives back root.children, node for node.                       *)
(***************************************************************************)
C3_FlattenRoundTrip == flat # Undefined => flat.children = root

\* The flattened tree held a Section with a nested Section and content.
C3_Witness ==
    /\ flat # Undefined
    /\ \E s \in ChildSections(ast.children) :
          /\ ChildSections(s.children) # {}
          /\ \E c \in Elems(s.children) : ~isSection(c)

(***************************************************************************)
(* C4.  Every Section's depth is its heading's depth, and a Section that   *)
(* is a direct child of a Section of depth D is deeper than D.             *)
(***************************************************************************)
C4_SectionDepths ==
    ast # Undefined =>
        \A s \in SectionsIn(ast.children) :
            /\ s.depth = s.heading.depth
            /\ \A c \in ChildSections(s.children) : c.depth > s.depth

\* A Section holds a nested Section.
C4_Witness ==
    /\ ast # Undefined
    /\ \E s \in SectionsIn(ast.children) : ChildSections(s.children) # {}

(***************************************************************************)
(* C5.  The span of a Section built from a heading that has a position.    *)
(***************************************************************************)
LastChild(s) == s.children[Len(s.children)]

Contains(outer, inner) == outer.start <= inner.start /\ inner.end <= outer.end

\* C5 as claimed: start is the heading's start, end is the last child's
\* end (the heading's end without children), and so the span contains the
\* span of every child.
C5_SpanContainsChildren ==
    ast # Undefined =>
        \A s \in SectionsIn(ast.children) :
            HasPosition(s.heading) =>
                /\ s.position.start = s.heading.position.start
                /\ s.children = <<>> => s.position = s.heading.position
                /\ (s.children # <<>> /\ HasPosition(LastChild(s))) =>
                       s.position.end = LastChild(s).position.end
                /\ \A c \in Elems(s.children) :
                       HasPosition(c) => Contains(s.position, c.position)

\* C5 as amended: the end is the last child's end when that child has a
\* position and the heading's end otherwise; the span contains the span of
\* every child when the last child has a position.
C5_SpanOfSection ==
    ast # Undefined =>
        \A s \in SectionsIn(ast.children) :
            HasPosition(s.heading) =>
                /\ s.position.start = s.heading.position.start
                /\ s.children = <<>> => s.position = s.heading.position
                /\ (s.children # <<>> /\ HasPosition(LastChild(s))) =>
                       /\ s.position.end = LastChild(s).position.end
                       /\ \A c \in Elems(s.children) :
                              HasPosition(c) => Contains(s.position, c.position)
                /\ (s.children # <<>> /\ ~HasPosition(LastChild(s))) =>
                       s.position.end = s.heading.position.end

\* A Section with a position ends with a nested Section after other
\* content, and some Section is a heading without a body.
C5_Witness ==
    /\ ast # Undefined
    /\ \E s \in SectionsIn(ast.children) :
          /\ HasPosition(s.heading)
          /\ Len(s.children) >= 2
          /\ isSection(LastChild(s))
          /\ HasPosition(LastChild(s))
    /\ \E s \in SectionsIn(ast.children) :
          HasPosition(s.heading) /\ s.children = <<>>

(***************************************************************************)
(* C6.  Absent positions are tolerated: a Section whose heading has no     *)
(* position has none, a Section whose last child has no position ends at   *)
(* its heading's end, no read of a position fails, and the nodes, their    *)
(* order and their nesting are those of the same input with every          *)
(* position present.                                                       *)
(***************************************************************************)
\* The nodes of a tree, their order and their nesting: every position and
\* every address erased.
RECURSIVE Erased(_)
Erased(children) ==
    [j \in 1..Len(children) |->
        IF isSection(children[j])
        THEN [children[j] EXCEPT !.position = Undefined,
                                 !.heading = [@ EXCEPT !.position = Undefined],
                                 !.children = Erased(@),
                                 !.ref = 0,
                                 !.childrenRef = 0]
        ELSE [children[j] EXCEPT !.position = Undefined]]

\* The same blocks, each with the position the parser attaches.
Positioned(nodes) ==
    [j \in 1..Len(nodes) |-> [nodes[j] EXCEPT !.position = PositionOf(j)]]

C6_AbsentPositions ==
    ast # Undefined =>
        /\ \A s \in SectionsIn(ast.children) :
              /\ s.position # TypeError
              /\ ~HasPosition(s.heading) => s.position = Undefined
              /\ HasPosition(s.heading) =>
                    /\ s.position # Undefined
                    /\ (s.children # <<>> /\ ~HasPosition(LastChild(s))) =>
                           s.position.end = s.heading.position.end
        /\ Erased(ast.children)
             = Erased(createHierarchicalAST(Positioned(root),
                        [next |-> Len(root) + 1, writes |-> {}]).ast.children)

\* One Section's heading has no position and another, with a position,
\* has a last child without one.
C6_Witness ==
    /\ ast # Undefined
    /\ \E s \in SectionsIn(ast.children) : ~HasPosition(s.heading)
    /\ \E s \in SectionsIn(ast.children) :
          /\ HasPosition(s.heading)
          /\ s.children # <<>>
          /\ ~HasPosition(LastChild(s))

(***************************************************************************)
(* C7.  createHierarchicalAST stores to no object of its input, and the    *)
(* Section objects and children arrays of one call's result are fresh:     *)
(* none is an input object, none belongs to the result of the call before, *)
(* and the later call stores to no object of the earlier result.           *)
(***************************************************************************)
C7_ReadOnlyAndFresh ==
    ast # Undefined =>
        /\ heap.writes \cap InputRefs(root) = {}
        /\ Refs(ast) \cap InputRefs(root) = {}
        /\ prev # Undefined =>
              /\ Refs(ast) \cap Refs(prev) = {}
              /\ heap.writes \cap Refs(prev) = {}

\* Two calls were made on a root with a heading that captured content.
C7_Witness ==
    /\ prev # Undefined
    /\ \E s \in SectionsIn(ast.children) : s.children # <<>>
    /\ \E s \in SectionsIn(prev.children) : s.children # <<>>

(***************************************************************************)
(* Reading a call of splitText and its chunks.                             *)
(***************************************************************************)
OnlyWhitespace(t) == \A j \in 1..Len(t) : t[j].type = "whitespace"

\* What the caller asked for: the value of the key, or the documented
\* default when the caller left the key out.
Requested(cfg, key, default) == IF key \in DOMAIN cfg THEN cfg[key] ELSE default

RequestedChunkSize(cfg) == Requested(cfg, "chunkSize", DefaultChunkSize)

RequestedRatio(cfg) == Requested(cfg, "maxOverflowRatio", DefaultMaxOverflowRatio)

ValidConfig(cfg) == RequestedChunkSize(cfg) > 0 /\ RequestedRatio(cfg) >= 10

Called == ret # Undefined

Returned == Called /\ ret.outcome.status = "returned"

\* The piece is a whole block of the text of the call, not a slice of one.
WholeLeaf(p) ==
    LET node == parse(ret.text)[p.id]
    IN  p.start = node.position.start /\ p.end = node.position.end

(***************************************************************************)
(* C8.  For the empty string and for every whitespace-only text, under     *)
(* every valid configuration, ChunkdownSplitter.splitText returns an empty *)
(* chunk sequence and does not throw; and the effect of useTextSplitter,   *)
(* run on such a text, reports empty chunks and no error.                  *)
(***************************************************************************)
C8_BlankDirect ==
    (Called /\ OnlyWhitespace(ret.text) /\ ValidConfig(ret.config))
        => (ret.outcome.status = "returned" /\ ret.outcome.chunks = <<>>)

C8_BlankHook ==
    (HookEffect /\ OnlyWhitespace(text)) => (chunks' = <<>> /\ error' = Null)

C9_NonPositiveChunkSizeRejected ==
    (Called /\ "chunkSize" \in DOMAIN ret.config /\ ret.config.chunkSize <= 0)
        => /\ ret.outcome.status = "threw"
           /\ ret.outcome.error = "ConfigurationError"
           /\ ~ret.outcome.parsed

\* chunkSize 0, which a falsy test would replace, on a text with blocks.
C9_Witness ==
    /\ Called
    /\ "chunkSize" \in DOMAIN ret.config
    /\ ret.config.chunkSize = 0
    /\ parse(ret.text) # <<>>
    /\ ret.outcome.status = "threw"

(***************************************************************************)
(* C10.  Size bound.  Under a configuration with chunkSize > 0 and         *)
(* maxOverflowRatio >= 1, every chunk returned is no longer than           *)
(* chunkSize, or it is one whole block, kept atomic, no longer than        *)
(* chunkSize * maxOverflowRatio; and every slice of a force-split block is *)
(* no longer than chunkSize.                                               *)
(***************************************************************************)
C10_SizeBound ==
    (Returned /\ ValidConfig(ret.config))
        => LET chunkSize == RequestedChunkSize(ret.config)
               ratio     == RequestedRatio(ret.config)
               cs        == ret.outcome.chunks
           IN  \A k \in 1..Len(cs) :
                  /\ \/ ChunkLen(cs[k]) <= chunkSize
                     \/ /\ Len(cs[k]) = 1
                        /\ WholeLeaf(cs[k][1])
                        /\ ChunkLen(cs[k]) * 10 <= chunkSize * ratio
                  /\ \A j \in 1..Len(cs[k]) :
                        ~WholeLeaf(cs[k][j]) => PieceLen(cs[k][j]) <= chunkSize

\* An oversized Section was recursed into: its heading was packed with a
\* sibling, and a paragraph beyond the overflow allowance was sliced.
C10_Witness ==
    /\ Returned
    /\ ValidConfig(ret.config)
    /\ \E k \in 1..Len(ret.outcome.chunks) :
          /\ Len(ret.outcome.chunks[k]) = 2
          /\ ret.outcome.chunks[k][1].type = "heading"
    /\ \E k \in 1..Len(ret.outcome.chunks) :
          /\ ~WholeLeaf(ret.outcome.chunks[k][1])
          /\ PieceLen(ret.outcome.chunks[k][1]) = RequestedChunkSize(ret.config)

(***************************************************************************)
(* C11.  Coverage and order.  The pieces of the chunks returned, read in   *)
(* output order, are the blocks of the text in document order, each block  *)
(* whole or cut into adjoining slices that tile it: no block and no        *)
(* character of a sliced block is missing or repeated, no chunk is empty,  *)
(* and each chunk starts at or after the end of the chunk before it.       *)
(***************************************************************************)
RECURSIVE Concat(_)
Concat(seqs) == IF seqs = <<>> THEN <<>> ELSE Head(seqs) \o Concat(Tail(seqs))

\* Piece q follows piece p with nothing between them and nothing twice.
Adjoins(p, q, blocks) ==
    \/ /\ q.id = p.id
       /\ q.start = p.end
    \/ /\ q.id = p.id + 1
       /\ p.end = blocks[p.id].position.end
       /\ q.start = blocks[q.id].position.start

C11_Coverage ==
    Returned
        => LET blocks == parse(ret.text)
               cs     == ret.outcome.chunks
               ps     == Concat(cs)
           IN  /\ \A k \in 1..Len(cs) : cs[k] # <<>>
               /\ (ps = <<>>) <=> (blocks = <<>>)
               /\ \A j \in 1..Len(ps) :
                     /\ ps[j].id \in 1..Len(blocks)
                     /\ ps[j].start < ps[j].end
               /\ ps # <<>> =>
                     /\ ps[1].id = 1
                     /\ ps[1].start = blocks[1].position.start
                     /\ ps[Len(ps)].id = Len(blocks)
                     /\ ps[Len(ps)].end = blocks[Len(blocks)].position.end
               /\ \A j \in 1..(Len(ps) - 1) : Adjoins(ps[j], ps[j + 1], blocks)
               /\ \A k \in 2..Len(cs) :
                     cs[k][1].start >= cs[k - 1][Len(cs[k - 1])].end

\* A text that begins with whitespace, split into the chunk of a heading
\* and the slices of its paragraph.
C11_Witness ==
    /\ Returned
    /\ ret.text # <<>>
    /\ ret.text[1].type = "whitespace"
    /\ Len(ret.outcome.chunks) = 3
    /\ ret.outcome.chunks[1][1].type = "heading"
    /\ ~WholeLeaf(ret.outcome.chunks[2][1])
    /\ ~WholeLeaf(ret.outcome.chunks[3][1])

(***************************************************************************)
(* C12.  Scenario 2.  A document of two Sections of the same depth, each a *)
(* heading and one paragraph and each longer than chunkSize but not longer *)
(* than chunkSize * maxOverflowRatio, is split into exactly two chunks,    *)
(* one per Section, each starting with the Section's heading and holding   *)
(* its paragraph.                                                          *)
(***************************************************************************)
\* The Sections of the text of the call all overflow chunkSize, within the
\* allowance of maxOverflowRatio.
SectionsWithinOverflow ==
    LET blocks == parse(ret.text)
        tree   == createHierarchicalAST(blocks,
                      [next |-> Len(blocks) + 1, writes |-> {}]).ast
    IN  \A k \in 1..Len(tree.children) :
           /\ isSection(tree.children[k])
           /\ Size(tree.children[k]) > RequestedChunkSize(ret.config)
           /\ Size(tree.children[k]) * 10
                 <= RequestedChunkSize(ret.config) * RequestedRatio(ret.config)

C12_OneChunkPerSection ==
    (Called /\ ValidConfig(ret.config) /\ Len(parse(ret.text)) = 4
            /\ SectionsWithinOverflow)
        => /\ Returned
           /\ Len(ret.outcome.chunks) = 2
           /\ \A k \in 1..2 :
                 /\ Len(ret.outcome.chunks[k]) = 2
                 /\ ret.outcome.chunks[k][1].type = "heading"
                 /\ ret.outcome.chunks[k][1].id = 2 * k - 1
                 /\ ret.outcome.chunks[k][2].id = 2 * k

(***************************************************************************)
(* C13.  Monotonic chunk count.  With the text and maxOverflowRatio fixed, *)
(* a call with a smaller chunkSize returns at least as many chunks as the  *)
(* splitter produces with any larger chunkSize.                            *)
(***************************************************************************)
\* The chunk sizes above c that are compared with c.
LargerChunkSizes(c) == { c2 \in 1..(MaxChunkSize + MaxLeafSize) : c2 > c }

C13_MonotonicCount ==
    (Returned /\ ValidConfig(ret.config))
        => \A c2 \in LargerChunkSizes(RequestedChunkSize(ret.config)) :
              Len(ret.outcome.chunks)
                 >= Len(chunkdownSplitText(ret.text, c2,
                                           RequestedRatio(ret.config)).chunks)

\* A call whose chunkSize is small enough to give three chunks or more
\* where a larger chunkSize gives fewer, and still more than one.
C13_Witness ==
    /\ Returned
    /\ ValidConfig(ret.config)
    /\ "chunkSize" \in DOMAIN ret.config
    /\ Len(ret.outcome.chunks) >= 3
    /\ \E c2 \in LargerChunkSizes(ret.config.chunkSize) :
          LET larger == chunkdownSplitText(ret.text, c2,
                                           RequestedRatio(ret.config)).chunks
          IN  Len(larger) > 1 /\ Len(larger) < Len(ret.outcome.chunks)

(***************************************************************************)
(* C14.  Determinism and independence of calls.  A call of splitText has   *)
(* the outcome of every earlier call with the same text and the same       *)
(* configuration, whatever calls were made before or between the two; and  *)
(* two createHierarchicalAST calls on the same Root return trees that      *)
(* differ in nothing but the identity of their objects.                    *)
(***************************************************************************)
\* A tree without the identities of its objects.
RECURSIVE Structure(_)
Structure(children) ==
    [j \in 1..Len(children) |->
        IF isSection(children[j])
        THEN [children[j] EXCEPT !.children = Structure(@),
                                 !.ref = 0,
                                 !.childrenRef = 0]
        ELSE children[j]]

C15_NonEmptyTextHasChunks ==
    (Called /\ ValidConfig(ret.config))
        => /\ ret.outcome.status = "returned"
           /\ ret.text # <<>> => ret.outcome.chunks # <<>>

(***************************************************************************)
(* C15, amended.  Under a valid configuration every call returns, never    *)
(* throws; for every text that is not empty or whitespace-only the chunk   *)
(* list returned is not empty; and a block longer than chunkSize *         *)
(* maxOverflowRatio comes out as ceil(size / chunkSize) slices, each of    *)
(* chunkSize characters but the last, which holds the rest.                *)
(***************************************************************************)
\* The pieces of block b among the pieces ps, in order.
RECURSIVE PiecesOf(_, _)
PiecesOf(ps, b) ==
    IF ps = <<>> THEN <<>>
    ELSE IF Head(ps).id = b THEN <<Head(ps)>> \o PiecesOf(Tail(ps), b)
    ELSE PiecesOf(Tail(ps), b)

C15_NonBlankTextHasChunks ==
    (Called /\ ValidConfig(ret.config))
        => /\ ret.outcome.status = "returned"
           /\ ~OnlyWhitespace(ret.text) => ret.outcome.chunks # <<>>
           /\ LET blocks    == parse(ret.text)
                  chunkSize == RequestedChunkSize(ret.config)
                  ratio     == RequestedRatio(ret.config)
              IN  \A b \in 1..Len(blocks) :
                     LET size   == blocks[b].position.end - blocks[b].position.start
                         slices == PiecesOf(Concat(ret.outcome.chunks), b)
                     IN  size * 10 > chunkSize * ratio
                            => /\ (Len(slices) - 1) * chunkSize < size
                               /\ size <= Len(slices) * chunkSize
                               /\ \A j \in 1..(Len(slices) - 1) :
                                     PieceLen(slices[j]) = chunkSize
                               /\ PieceLen(slices[Len(slices)])
                                     = size - (Len(slices) - 1) * chunkSize

\* A paragraph alone in its text, sliced into two windows or more, the
\* last one shorter than chunkSize.
C15_Witness ==
    /\ Returned
    /\ ValidConfig(ret.config)
    /\ Len(parse(ret.text)) = 1
    /\ Len(ret.outcome.chunks) >= 2
    /\ PieceLen(ret.outcome.chunks[Len(ret.outcome.chunks)][1])
          < RequestedChunkSize(ret.config)

(***************************************************************************)
(* C16.  How a run of useTextSplitter ends.  A run that fails (the         *)
(* splitterId is not registered, splitText throws, the promise rejects)    *)
(* ends with error set to the failure, a value that is no Error wrapped as *)
(* Error('Unknown error'), with chunks empty and isLoading false; a run    *)
(* that succeeds ends with error null and chunks the splitter's result.    *)
(***************************************************************************)
\* The effect fails before it suspends: no such splitter, or a throw.
FailsAtOnce ==
    /\ HookEffect
    /\ ~IsBlank(text)
    /\ ~RegistryHas(splitterId)
          \/ (splitterId = "chunkdown" /\ SplitText(text, config).status = "threw")

C16_EndOfRun ==
    /\ FailsAtOnce =>
          /\ error' = [message |-> IF RegistryHas(splitterId)
                                   THEN SplitText(text, config).error
                                   ELSE "Splitter not found"]
          /\ chunks' = <<>>
          /\ isLoading' = FALSE
    /\ \A k \in 1..Len(pending) : \A outcome \in pending[k].outcomes :
          Settle(k, outcome) =>
             IF outcome.status = "returned"
             THEN error' = Null /\ chunks' = outcome.chunks
             ELSE /\ error' = [message |-> IF outcome.error = NonError
                                           THEN "Unknown error"
                                           ELSE outcome.error]
                  /\ chunks' = <<>>
                  /\ isLoading' = FALSE

C16_RunsEndAsReported == [][C16_EndOfRun]_vars

(***************************************************************************)
(* C17.  The registry is keyed by id.  get of an id is undefined on a new  *)
(* registry; register(s) makes get(s.id) return s and leaves get of every  *)
(* other id as it was, so that get returns the splitter most recently      *)
(* registered under the id; has(id) is true exactly when get(id) is        *)
(* defined; and getAll holds one entry per id registered, no id twice.     *)
(***************************************************************************)
IdsOf(list) == { list[j].id : j \in 1..Len(list) }

C17_KeyedState ==
    /\ \A id \in SplitterClassIds :
          /\ has(splitters, id) <=> get(splitters, id) # Undefined
          /\ has(splitters, id) <=> id \in IdsOf(getAll(splitters))
          /\ get(splitters, id) # Undefined => get(splitters, id).id = id
    /\ \A i, j \in 1..Len(getAll(splitters)) :
          getAll(splitters)[i].id = getAll(splitters)[j].id => i = j

\* A step is a register call of a splitter that the Map then holds, and of
\* every such call the claim holds.
C17_RegisterStep ==
    /\ \E j \in 1..Len(splitters') : Register(splitters'[j])
    /\ \A j \in 1..Len(splitters') :
          LET s == splitters'[j]
          IN  Register(s) =>
                 /\ get(splitters', s.id) = s
                 /\ \A id \in SplitterClassIds \ {s.id} :
                       get(splitters', id) = get(splitters, id)
                 /\ IdsOf(getAll(splitters'))
                       = IdsOf(getAll(splitters)) \cup {s.id}

C17_KeyedById ==
    /\ \A id \in SplitterClassIds : get(<<>>, id) = Undefined
    /\ [] C17_KeyedState
    /\ [][C17_RegisterStep]_vars

\* The global registry, with another mastra splitter, one that is enabled,
\* registered over the disabled one, in its place.
C17_Witness ==
    /\ Len(getAll(splitters)) = 4
    /\ SubSeq(splitters, 1, 3) = SubSeq(GlobalSplitters, 1, 3)
    /\ get(splitters, "mastra") = [id |-> "mastra", disabled |-> FALSE]
    /\ getAll(splitters)[4].id = "mastra"

(***************************************************************************)
(* C18.  getEnabled returns the splitters of getAll whose disabled flag is *)
(* not set, all of them and no other, in the order getAll has them; in the *)
(* global registry as initialised getAll holds chunkdown, langchain,       *)
(* llamaindex and mastra, and getEnabled all of them but mastra.           *)
(***************************************************************************)
\* The positions in getAll of the splitters that are not disabled.
EnabledAt(all) ==
    { j \in 1..Len(all) : ~("disabled" \in DOMAIN all[j] /\ all[j].disabled) }

C18_EnabledFilter ==
    LET all     == getAll(splitters)
        enabled == getEnabled(splitters)
    IN  /\ Len(enabled) = Cardinality(EnabledAt(all))
        /\ \A j \in EnabledAt(all) :
              enabled[Cardinality({i \in EnabledAt(all) : i <= j})] = all[j]
        /\ splitters = GlobalSplitters =>
              /\ [j \in 1..Len(all) |-> all[j].id]
                    = <<"chunkdown", "langchain", "llamaindex", "mastra">>
              /\ [j \in 1..Len(enabled) |-> enabled[j].id]
                    = <<"chunkdown", "langchain", "llamaindex">>

\* The global registry as initialised.
C18_Witness ==
    /\ splitters = GlobalSplitters
    /\ Len(getEnabled(splitters)) = 3
    /\ get(splitters, "mastra").disabled

(***************************************************************************)
(* C19.  Overlapping runs.  Once the effect has run for the latest text    *)
(* and every split started has settled, the chunks of useTextSplitter are  *)
(* empty if that text is blank, and otherwise are empty or the result of   *)
(* the splitter for that text: never a result computed for a text that    *)
(* was superseded.                                                         *)
(***************************************************************************)
\* The chunks the chosen splitter returns for the current text.
ResultForCurrentInputs ==
    IF splitterId = "chunkdown"
    THEN SplitText(text, config).chunks
    ELSE << <<[type |-> "external", of |-> text]>> >>

AllSettled == pending = <<>> /\ ~effectDue

C19_LatestInputsWin ==
    AllSettled
        => /\ IsBlank(text) => chunks = <<>>
           /\ chunks # <<>> => chunks = ResultForCurrentInputs

(***************************************************************************)
(* C20.  In every reachable state of useTextSplitter a non-null error      *)
(* comes with empty chunks, and isLoading is true while a split started by *)
(* the hook has not settled.                                               *)
(***************************************************************************)
C20_ErrorAndLoading ==
    /\ error # Null => chunks = <<>>
    /\ pending # <<>> => isLoading

C22_SiblingShape ==
    ast # Undefined =>
        /\ \A s \in SectionsIn(ast.children) :
              \A j \in 1..(Len(s.children) - 1) :
                  isSection(s.children[j]) =>
                      /\ isSection(s.children[j + 1])
                      /\ s.children[j + 1].depth <= s.children[j].depth
        /\ \A j \in 1..(Len(ast.children) - 1) :
              isSection(ast.children[j]) =>
                  \/ ast.children[j + 1].type = "thematicBreak"
                  \/ /\ isSection(ast.children[j + 1])
                     /\ ast.children[j + 1].depth <= ast.children[j].depth

\* A Section holds a block and then a nested Section.
C22_Witness ==
    /\ ast # Undefined
    /\ \E s \in ChildSections(ast.children) :
          /\ Len(s.children) = 2
          /\ ~isSection(s.children[1])
          /\ isSection(s.children[2])
          /\ s.children[2].depth > s.depth

(***************************************************************************)
(* C23.  splitText of the LangChain and LlamaIndex adapters accepts        *)
(* exactly the names of the adapter's algorithms field: an absent          *)
(* algorithm counts as 'markdown', a listed name is dispatched to a        *)
(* splitter, and any other name rejects with Error('Unknown algorithm:     *)
(* <name>') and returns no chunks.                                         *)
(***************************************************************************)
C23_ExactlyListed ==
    ret # Undefined =>
        LET requested == IF "algorithm" \in DOMAIN ret.config
                         THEN ret.config.algorithm ELSE "markdown"
        IN  IF requested \in Elems(Algorithms(ret.splitterId))
            THEN "splitter" \in DOMAIN ret.outcome
            ELSE ret.outcome =
                   [status |-> "threw",
                    error  |-> [message |-> <<"Unknown algorithm: ", requested>>]]

\* LlamaIndex rejects 'character', a name only LangChain lists.
C23_Witness ==
    /\ ret # Undefined
    /\ ret.splitterId = "llamaindex"
    /\ "algorithm" \in DOMAIN ret.config
    /\ ret.config.algorithm = "character"
    /\ ret.outcome.status = "threw"
    /\ "splitter" \notin DOMAIN ret.outcome

(***************************************************************************)
(* C24.  URL synchronisation never reverts an edit: once the page is       *)
(* initialised, a run of the load effect that is due to a URL written by   *)
(* updateURL applies the text and the settings the page has; it does not   *)
(* put back an older value the URL still carries.                          *)
(***************************************************************************)
C24_NoRevert ==
    [][(page.isInitialized /\ browser'.searchParams # browser.searchParams)
          => Dependencies(page') = Dependencies(page)]_vars

(***************************************************************************)
(* C25.  Shareable-URL round trip: the URL updateURL writes for a state    *)
(* reached through the controls, loaded into a freshly constructed page,   *)
(* restores the text, the library, the algorithm of that library,          *)
(* chunkSize, maxOverflowRatio, the layout mode, the section order and     *)
(* the collapse flags; values equal to the defaults are left out of the    *)
(* URL and come back as the defaults.                                      *)
(***************************************************************************)
C25_RoundTrip ==
    page.isInitialized =>
        LET url   == URLParams(page, browser.prefersDark)
            fresh == LoadFromURL(DefaultState, url, browser.prefersDark)
        IN  /\ fresh.text = page.text
            /\ fresh.library = page.library
            /\ page.library = "chunkdown" =>
                  fresh.chunkdownAlgorithm = page.chunkdownAlgorithm
            /\ page.library = "langchain" =>
                  fresh.langchainAlgorithm = page.langchainAlgorithm
            /\ page.library = "mastra" =>
                  fresh.mastraAlgorithm = page.mastraAlgorithm
            /\ fresh.chunkSize = page.chunkSize
            /\ fresh.maxOverflowRatio = page.maxOverflowRatio
            /\ fresh.layoutMode = page.layoutMode
            /\ fresh.sectionOrder = page.sectionOrder
            /\ \A flag \in CollapseFlags : fresh[flag] = page[flag]

(***************************************************************************)
(* C26.  The load effect validates each parameter and leaves the state     *)
(* unchanged on an invalid one: chunkSize is applied only if it parses to  *)
(* an integer in 1..2000, maxOverflow only if it parses to a number in     *)
(* [1.0, 3.0], library only if it is chunkdown, langchain or mastra, an    *)
(* algorithm only if it is in its library's list, layout only if it is     *)
(* row or column, sectionOrder only if it has exactly four entries and     *)
(* holds all four section ids; and the effect runs to its end whatever     *)
(* the URL holds.                                                          *)
(***************************************************************************)
\* The load effect runs in this step: on mount, or on new searchParams.
LoadStep ==
    \/ ~page.isInitialized /\ page'.isInitialized
    \/ browser'.searchParams # browser.searchParams

\* The value of the field after the load effect: the one the parameter
\* gives if it is present and valid, and the old one otherwise.
Applied(field, valid, given) ==
    page'[field] = IF valid THEN given ELSE page[field]

\* The parameter is one of the words.
OneOf(params, name, words) == Has(params, name) /\ params[name] \in { Word(w) : w \in words }

C26_Validated ==
    [][LoadStep =>
         LET params == browser'.searchParams
             size   == IF Has(params, "chunkSize") THEN parseInt(params["chunkSize"])
                       ELSE NaN
             ratio  == IF Has(params, "maxOverflow") THEN parseFloat(params["maxOverflow"])
                       ELSE NaN
             order  == IF Has(params, "sectionOrder") THEN split(params["sectionOrder"])
                       ELSE <<>>
         IN  /\ Applied("chunkSize",
                        ~size.nan /\ size.value \in 1..2000, size.value)
             /\ Applied("maxOverflowRatio",
                        ~ratio.nan /\ ratio.value \in 10..30, ratio.value)
             /\ Applied("library",
                        OneOf(params, "library", {"chunkdown", "langchain", "mastra"}),
                        params["library"][1])
             /\ \A l \in {"chunkdown", "langchain", "mastra"} :
                   LET name == CASE l = "chunkdown" -> "chunkdownAlgorithm"
                                 [] l = "langchain" -> "langchainAlgorithm"
                                 [] l = "mastra"    -> "mastraAlgorithm"
                   IN  Applied(name,
                               OneOf(params, name, Elems(LibraryAlgorithms(l))),
                               params[name][1])
             /\ Applied("layoutMode", OneOf(params, "layout", {"row", "column"}),
                        params["layout"][1])
             /\ Applied("sectionOrder",
                        /\ Len(order) = 4
                        /\ \A id \in SectionIds : \E j \in 1..4 : order[j] = <<id>>,
                        [j \in 1..Len(order) |-> order[j][1]])
             /\ page'.isInitialized]_vars

\* A chunkSize of 2001 was loaded into a page whose chunkSize was 1.
C26_Witness ==
    /\ page.isInitialized
    /\ page.chunkSize = 1
    /\ browser.searchParams = Param("chunkSize", <<"2", "0", "0", "1">>)

(***************************************************************************)
(* C27.  sectionOrder is a permutation of library, input, ast and chunks   *)
(* in every reachable state, after any moveSection calls and URL loads;    *)
(* moveSection swaps the section with its neighbour in the direction       *)
(* given and leaves the other sections where they are; on the first        *)
(* section to the left and on the last to the right it leaves the order    *)
(* unchanged; and canMove(s, d) is true exactly when moveSection(s, d)     *)
(* changes the order.                                                      *)
(***************************************************************************)
\* The place of the section in the order.
PlaceOf(order, id) == CHOOSE j \in 1..Len(order) : order[j] = id

C27_SectionOrder ==
    LET order == page.sectionOrder
    IN  /\ Len(order) = 4
        /\ \A id \in SectionIds : \E j \in 1..4 : order[j] = id
        /\ \A id \in SectionIds, d \in Directions :
              LET moved == moveSection(order, id, d)
                  from  == PlaceOf(order, id)
                  to    == IF d = "left" THEN from - 1 ELSE from + 1
              IN  /\ IF to \in 1..4
                     THEN /\ moved[to] = id
                          /\ moved[from] = order[to]
                          /\ \A j \in 1..4 \ {from, to} : moved[j] = order[j]
                     ELSE moved = order
                  /\ canMove(order, id, d) <=> moved # order

\* The ast section was moved to the front while the URL carries a list of
\* five entries, which is no order.
C27_Witness ==
    /\ page.isInitialized
    /\ page.sectionOrder = <<"ast", "library", "input", "chunks">>
    /\ browser.searchParams =
          Param("sectionOrder", join(<<"library", "input", "ast", "chunks", "library">>))
    /\ browser.navigation # <<>>

============================================================================
